---------------------------- MODULE Spec2Model ----------------------------
(***************************************************************************)
(* Model of MoorhenCommandCentre                                           *)
(* (src/baby-gru/src/components/BabyGruButtonBar.js, lines 249-354), of    *)
(* the web worker it talks to, and of MoorhenMap                           *)
(* (src/baby-gru/src/utils/MoorhenMap.ts), which issues its commands       *)
(* through the command centre and keeps its display buffers in the         *)
(* renderer (glRef).                                                       *)
(*                                                                         *)
(* The UI side is a single-threaded event loop: every method of the        *)
(* command centre that contains no await (cootCommand, cootCommandList,    *)
(* postMessage, handleMessage, unhook) runs to completion as one step, so  *)
(* each is one action.  What a method does inside one step, and in which   *)
(* order, is recorded in last.events.                                      *)
(***************************************************************************)
EXTENDS Integers, Sequences, FiniteSets, TLC

VARIABLES
    props,            \* which callbacks the constructor's props registered
    activeMessages,   \* this.activeMessages: the in-flight requests
    history,          \* this.history: the journal (MoorhenHistory)
    consoleMessage,   \* this.consoleMessage: the running console log
    cootWorker,       \* this.cootWorker: the worker and the channel to it
    nextId,           \* the next value uuidv4() returns
    resolutions,      \* every call of a promise's resolve, in order
    reportedActive,   \* the value onActiveMessagesChanged received last
    cootInitialized,  \* how often onCootInitialized has been invoked
    issued,           \* every descriptor issued, in issue order
    teardown,         \* what was in flight, resolved and logged at unhook()
    last,             \* the most recent operation and what it did, in order
    map,              \* the fields of one MoorhenMap instance
    glRef,            \* the renderer: glRef.current.displayBuffers
    buffers,          \* the display buffer objects that are alive, by id
    calls             \* the promises of the map's asynchronous operations

\* the map, the renderer and the map's operations
mapVars == << map, glRef, buffers, calls >>

vars == << props, activeMessages, history, consoleMessage, cootWorker, nextId,
           resolutions, reportedActive, cootInitialized,
           issued, teardown, last, map, glRef, buffers, calls >>

----------------------------------------------------------------------------
(* Bounds of the model *)

\* postMessage calls after the constructor's CootInitialize
MaxRequests == 2
\* replies that carry a console text
MaxConsole == 1

----------------------------------------------------------------------------
(* Values *)

\* the value of a field that is absent (undefined / null)
Undefined == "undefined"
\* the messageId of a reply that carries none
NoId == 0
\* "nothing was reported yet"
NotReported == "not reported"

\* handleMessage: consoleMessage.length > 160, substring(0, 160)
ConsoleLimit == 160

\* the k-th character of a text the worker prints
Chr(k) == << "0", "1", "2", "3", "4", "5", "6", "7", "8", "9" >>[(k % 10) + 1]
\* a console text of n characters
Text(n) == [k \in 1..n |-> Chr(k)]
\* the lengths of the console texts the worker sends: at the limit and past it
ConsoleLengths == {ConsoleLimit, ConsoleLimit + 1}
ConsoleTexts == {Text(n) : n \in ConsoleLengths}

\* cootCommandKwargs the callers issue
flipPeptide == [command |-> "flipPeptide_cid", changesMolecules |-> Undefined]
gemanMcclure == [command |-> "set_refinement_geman_mcclure_alpha",
                 changesMolecules |-> << >>]
refine == [command |-> "refine_residues", changesMolecules |-> << 0 >>]
mergeMolecules == [command |-> "merge_molecules", changesMolecules |-> << 0, 1 >>]
\* the calls of cootCommand(kwargs, doJournal): a descriptor that declares
\* changes with and without journaling, and one that declares no changes and
\* one that declares an empty list of them with journaling
CommandCalls == { << refine, TRUE >>, << refine, FALSE >>,
                  << gemanMcclure, TRUE >>, << flipPeptide, TRUE >> }
\* the calls of cootCommandList(commandList, doJournal)
ListCalls == { << << refine, flipPeptide, mergeMolecules >>, TRUE >>,
               << << refine, flipPeptide, mergeMolecules >>, FALSE >>,
               << << >>, TRUE >> }
\* a message posted without cootCommand (MoorhenMap.ts line 132)
DirectMessages == {[message |-> "delete_file_name"]}

Ev(e, arg) == [e |-> e, arg |-> arg]

----------------------------------------------------------------------------
(* Helpers of the command centre *)

\* variant: a call returns the token of the call before it once more
uuidv4_Repeats == IF nextId > 2 THEN nextId - 1 ELSE nextId

\* uuidv4(): a token that differs from every token generated before
uuidv4 == nextId

\* kwargs.changesMolecules?.length > 0
ChangesMolecules(kwargs) ==
    IF kwargs.changesMolecules = Undefined THEN FALSE
    ELSE Len(kwargs.changesMolecules) > 0

\* variant: the changesMolecules test is missing
ShouldJournal_IgnoresChanges(kwargs, doJournal) == doJournal

\* cootCommand: if (doJournal && kwargs.changesMolecules?.length > 0)
ShouldJournal(kwargs, doJournal) == doJournal /\ ChangesMolecules(kwargs)

\* variant: the list is journaled back to front
ListJournalEntries_Reversed(commandList, doJournal) ==
    IF doJournal
    THEN [k \in 1..Len(commandList) |-> commandList[Len(commandList) + 1 - k]]
    ELSE << >>

\* cootCommandList: if (doJournal) commandList.forEach(addEntry)
ListJournalEntries(commandList, doJournal) ==
    IF doJournal THEN commandList ELSE << >>

\* MoorhenHistory.addEntry: append only
addEntry(entries, kwargs) == Append(entries, kwargs)

\* variant: the oldest entry makes room for the new ones
addEntries_DropsOldest(entries, list) ==
    IF entries = << >> \/ list = << >> THEN entries \o list
    ELSE Tail(entries) \o list

\* commandList.forEach(addEntry): one append per descriptor, in list order
RECURSIVE addEntries(_, _)
addEntries(entries, list) ==
    IF list = << >> THEN entries
    ELSE addEntries(addEntry(entries, Head(list)), Tail(list))

\* handleMessage: the text surfaced for reply.data.consoleMessage
TruncatedPrefix ==
    << "T", "R", "U", "N", "C", "A", "T", "E", "D", " ", "T", "O", " ", "[" >>
\* variant: the text is marked and not cut
NewMessage_NotCut(text) ==
    IF Len(text) > ConsoleLimit
    THEN TruncatedPrefix \o text \o << "]" >>
    ELSE text
NewMessage(text) ==
    IF Len(text) > ConsoleLimit
    THEN TruncatedPrefix \o SubSeq(text, 1, ConsoleLimit) \o << "]" >>
    ELSE text

\* extendConsoleMessage: consoleMessage.concat(">" + newMessage + "\n")
extendConsoleMessage(log, newMessage) == log \o << ">" >> \o newMessage \o << "\n" >>

\* variant: the handler of every in-flight request is called
MatchingMessages_AnyId(messages, reply) == messages

\* variant: a reply that matches no request is handed to the oldest one
MatchingMessages_OldestIfNone(messages, reply) ==
    LET own == SelectSeq(messages,
                    LAMBDA m : m.messageId # NoId /\ m.messageId = reply.messageId)
    IN  IF own = << >> /\ messages # << >> THEN << Head(messages) >> ELSE own

\* handleMessage: the in-flight requests whose handler is called
MatchingMessages(messages, reply) ==
    SelectSeq(messages,
              LAMBDA m : m.messageId # NoId /\ m.messageId = reply.messageId)

\* variant: the reply also retires the requests posted before its own
RemainingMessages_OlderRetired(messages, reply) ==
    SelectSeq(messages, LAMBDA m : m.messageId > reply.messageId)

\* variant: a reply retires no request
RemainingMessages_KeepsAll(messages, reply) == messages

\* handleMessage: the in-flight requests that stay
RemainingMessages(messages, reply) ==
    SelectSeq(messages, LAMBDA m : m.messageId # reply.messageId)

----------------------------------------------------------------------------
(* Values of the map and of the renderer *)

\* a field that holds null (or undefined), and a field that holds v
Null == << >>
Some(v) == << v >>

\* MoorhenMap's constructor: the fields the operations below read or write
NewMap ==
    [ molNo |-> Null, isEM |-> FALSE, isDifference |-> FALSE,
      hasReflectionData |-> FALSE, selectedColumns |-> Null,
      associatedReflectionFileName |-> Null,
      displayObjects |-> [Coot |-> << >>],
      diffMapColourBuffers |-> [positiveDiffColour |-> << >>,
                                negativeDiffColour |-> << >>],
      mapRmsd |-> Null, suggestedMapWeight |-> Null,
      suggestedContourLevel |-> Null, suggestedRadius |-> Null,
      mapCentre |-> Null, otherMapForColouring |-> Null,
      defaultMapColour |-> Null ]

\* no operation of the map was called
NoCalls == [made |-> 0, pending |-> {}, deleted |-> FALSE]

\* a renderer that has created no display buffer
NewRenderer == [displayBuffers |-> << >>, created |-> 0]

----------------------------------------------------------------------------
(* The state after the constructor has run *)

InitMessage == [message |-> "CootInitialize"]
\* the messageId uuidv4() gives the constructor's postMessage
InitId == 1

\* the props handed to the constructor: every callback, or the two of the
\* class's documented example (onActiveMessagesChanged, onCootInitialized)
PropsChoices ==
    { [ onConsoleChanged |-> TRUE, onNewCommand |-> TRUE,
        onActiveMessagesChanged |-> TRUE, onCootInitialized |-> TRUE ],
      [ onConsoleChanged |-> FALSE, onNewCommand |-> FALSE,
        onActiveMessagesChanged |-> TRUE, onCootInitialized |-> TRUE ] }

Init ==
    /\ props \in PropsChoices
    /\ activeMessages = << [messageId |-> InitId, kwargs |-> InitMessage] >>
    /\ history = << >>
    /\ consoleMessage = << >>
    /\ cootWorker = [ received |-> << [messageId |-> InitId, kwargs |-> InitMessage] >>,
                      answered |-> {}, terminated |-> FALSE, console |-> 0 ]
    /\ nextId = InitId + 1
    /\ resolutions = << >>
    /\ reportedActive = IF props.onActiveMessagesChanged
                        THEN activeMessages ELSE NotReported
    /\ cootInitialized = 0
    /\ issued = << >>
    /\ teardown = [ done |-> FALSE, activeMessages |-> << >>,
                    resolutions |-> << >>, consoleMessage |-> << >> ]
    /\ last = [ op |-> "constructor", args |-> << >>,
                events |-> << Ev("push", InitId) >>
                    \o (IF props.onActiveMessagesChanged
                        THEN << Ev("onActiveMessagesChanged", activeMessages) >>
                        ELSE << >>)
                    \o << Ev("workerPost", InitId) >> ]
    /\ map = NewMap
    /\ glRef = NewRenderer
    /\ buffers = << >>
    /\ calls = NoCalls

----------------------------------------------------------------------------
(* Operations of the command centre *)

\* variant: the observer is not called
NotifyActive_NotCalled(messages) == reportedActive

\* if (this.onActiveMessagesChanged) this.onActiveMessagesChanged(messages):
\* what the observer has received last, after the call
NotifyActive(messages) ==
    IF props.onActiveMessagesChanged THEN messages ELSE reportedActive

\* variant: only the first descriptor is handed to the observer
NewCommandEvents_FirstOnly(descriptors) ==
    IF props.onNewCommand /\ descriptors # << >>
    THEN << Ev("onNewCommand", Head(descriptors)) >>
    ELSE << >>

\* if (this.onNewCommand) this.onNewCommand(kwargs), for each descriptor
NewCommandEvents(descriptors) ==
    IF props.onNewCommand
    THEN [k \in 1..Len(descriptors) |-> Ev("onNewCommand", descriptors[k])]
    ELSE << >>

\* variant: the message carries the first descriptor only
ListMessage_HeadOnly(commandList) ==
    [message |-> "coot_command_list",
     commandList |-> IF commandList = << >> THEN << >>
                     ELSE << Head(commandList) >>]

\* cootCommandList: the one message posted for the whole list
ListMessage(commandList) ==
    [message |-> "coot_command_list", commandList |-> commandList]

\* variant: any resolved promise runs the callback
InitResolved_AnyReply(matching) == matching # << >>

\* the promise the constructor's .then() hangs on is among those resolved
InitResolved(matching) ==
    \E k \in 1..Len(matching) : matching[k].kwargs = InitMessage

\* variant: the message overtakes the messages posted before it
workerPostMessage_Overtakes(worker, entry) ==
    IF worker.terminated THEN worker
    ELSE [worker EXCEPT !.received = << entry >> \o @]

\* this.cootWorker.postMessage(...): the channel keeps the order of the posts;
\* a terminated worker drops what is posted to it
workerPostMessage(worker, entry) ==
    IF worker.terminated THEN worker
    ELSE [worker EXCEPT !.received = Append(@, entry)]

\* variant: the message is posted to the worker before the request is
\* registered
postMessage_PostsFirst(kwargs, op, args, before) ==
    LET messageId == uuidv4
        entry == [messageId |-> messageId, kwargs |-> kwargs]
        newActive == Append(activeMessages, entry)
    IN  /\ nextId <= MaxRequests + 1
        /\ nextId' = nextId + 1
        /\ activeMessages' = newActive
        /\ reportedActive' = NotifyActive(newActive)
        /\ cootWorker' = workerPostMessage(cootWorker, entry)
        /\ last' = [ op |-> op, args |-> args,
                     events |-> before
                        \o << Ev("workerPost", messageId) >>
                        \o << Ev("push", messageId) >>
                        \o (IF props.onActiveMessagesChanged
                            THEN << Ev("onActiveMessagesChanged", newActive) >>
                            ELSE << >>) ]

\* postMessage(kwargs), called by `op` after it did `before`
postMessage(kwargs, op, args, before) ==
    LET messageId == uuidv4
        entry == [messageId |-> messageId, kwargs |-> kwargs]
        newActive == Append(activeMessages, entry)
    IN  /\ nextId <= MaxRequests + 1
        /\ nextId' = nextId + 1
        /\ activeMessages' = newActive
        /\ reportedActive' = NotifyActive(newActive)
        /\ cootWorker' = workerPostMessage(cootWorker, entry)
        /\ last' = [ op |-> op, args |-> args,
                     events |-> before
                        \o << Ev("push", messageId) >>
                        \o (IF props.onActiveMessagesChanged
                            THEN << Ev("onActiveMessagesChanged", newActive) >>
                            ELSE << >>)
                        \o << Ev("workerPost", messageId) >> ]

postMessageCall(kwargs) ==
    /\ postMessage(kwargs, "postMessage", [kwargs |-> kwargs], << >>)
    /\ UNCHANGED << props, history, consoleMessage, resolutions,
                    cootInitialized, issued, teardown >>
    /\ UNCHANGED mapVars

cootCommand(kwargs, doJournal) ==
    LET journal == ShouldJournal(kwargs, doJournal)
    IN  /\ history' = IF journal THEN addEntry(history, kwargs) ELSE history
        /\ issued' = Append(issued, [kwargs |-> kwargs, doJournal |-> doJournal,
                                     list |-> FALSE, messageId |-> nextId])
        /\ postMessage([message |-> "coot_command", kwargs |-> kwargs],
                       "cootCommand",
                       [kwargs |-> kwargs, doJournal |-> doJournal],
                       NewCommandEvents(<< kwargs >>)
                       \o (IF journal THEN << Ev("addEntry", kwargs) >> ELSE << >>))
        /\ UNCHANGED << props, consoleMessage, resolutions, cootInitialized,
                        teardown >>
        /\ UNCHANGED mapVars

cootCommandList(commandList, doJournal) ==
    LET entries == ListJournalEntries(commandList, doJournal)
    IN  /\ history' = addEntries(history, entries)
        /\ issued' = issued \o
                [k \in 1..Len(commandList) |->
                    [kwargs |-> commandList[k], doJournal |-> doJournal,
                     list |-> TRUE, messageId |-> nextId]]
        /\ postMessage(ListMessage(commandList),
                       "cootCommandList",
                       [commandList |-> commandList, doJournal |-> doJournal],
                       NewCommandEvents(commandList)
                       \o [k \in 1..Len(entries) |-> Ev("addEntry", entries[k])])
        /\ UNCHANGED << props, consoleMessage, resolutions, cootInitialized,
                        teardown >>
        /\ UNCHANGED mapVars

\* handleMessage(reply), and the microtasks the resolved promises run after it
handleMessage(reply) ==
    LET surfaced == props.onConsoleChanged /\ reply.consoleMessage # << >>
        newMessage == NewMessage(reply.consoleMessage)
        newConsole == IF surfaced
                      THEN extendConsoleMessage(consoleMessage, newMessage)
                      ELSE consoleMessage
        matching == MatchingMessages(activeMessages, reply)
        remaining == RemainingMessages(activeMessages, reply)
        resolved == [k \in 1..Len(matching) |->
                        [request |-> matching[k].messageId,
                         reply |-> reply.messageId]]
        callInit == InitResolved(matching) /\ props.onCootInitialized
    IN  /\ consoleMessage' = newConsole
        /\ resolutions' = resolutions \o resolved
        /\ activeMessages' = remaining
        /\ reportedActive' = NotifyActive(remaining)
        /\ cootInitialized' = IF callInit THEN cootInitialized + 1
                              ELSE cootInitialized
        /\ last' = [ op |-> "handleMessage", args |-> [reply |-> reply],
                     events |->
                        (IF surfaced
                         THEN << Ev("extendConsoleMessage", newMessage),
                                 Ev("onConsoleChanged", newConsole) >>
                         ELSE << >>)
                        \o [k \in 1..Len(resolved) |-> Ev("resolve", resolved[k])]
                        \o (IF props.onActiveMessagesChanged
                            THEN << Ev("onActiveMessagesChanged", remaining) >>
                            ELSE << >>)
                        \o (IF callInit
                            THEN << Ev("onCootInitialized", << >>) >>
                            ELSE << >>) ]
        /\ UNCHANGED << props, history, nextId, issued, teardown >>

\* variant: the worker is not terminated
Terminated_StillRunning(worker) == worker

\* what Worker.terminate() leaves of the worker: it processes nothing and no
\* message event of it is dispatched any more
Terminated(worker) == [worker EXCEPT !.terminated = TRUE]

\* unhook(): removeEventListener does not match the listener installed through
\* onmessage (another function object, bound), so it removes nothing;
\* terminate() stops the worker
unhook ==
    /\ ~teardown.done
    /\ cootWorker' = Terminated(cootWorker)
    /\ teardown' = [ done |-> TRUE, activeMessages |-> activeMessages,
                     resolutions |-> resolutions,
                     consoleMessage |-> consoleMessage ]
    /\ last' = [op |-> "unhook", args |-> << >>, events |-> << >>]
    /\ UNCHANGED << props, activeMessages, history, consoleMessage, nextId,
                    resolutions, reportedActive, cootInitialized,
                    issued >>
    /\ UNCHANGED mapVars

----------------------------------------------------------------------------
(* The worker *)

ReplyStatus == {"Completed", "Exception"}

\* the messages the worker received and has not answered
Unanswered ==
    {k \in 1..Len(cootWorker.received) :
        cootWorker.received[k].messageId \notin cootWorker.answered}

\* the worker answers the k-th message it received, with the message's own
\* messageId, and the reply reaches cootWorker.onmessage (handleMessage);
\* the worker answers in any order
WorkerReply(k, status, text) ==
    /\ ~cootWorker.terminated
    /\ k \in Unanswered
    /\ text # << >> => cootWorker.console < MaxConsole
    /\ LET m == cootWorker.received[k]
       IN /\ handleMessage([messageId |-> m.messageId, status |-> status,
                            consoleMessage |-> text])
          /\ cootWorker' = [cootWorker EXCEPT
                !.answered = @ \cup {m.messageId},
                !.console = IF text # << >> THEN @ + 1 ELSE @]
    /\ UNCHANGED mapVars

----------------------------------------------------------------------------

Next ==
    \/ \E call \in CommandCalls : cootCommand(call[1], call[2])
    \/ \E call \in ListCalls : cootCommandList(call[1], call[2])
    \/ \E kwargs \in DirectMessages : postMessageCall(kwargs)
    \/ \E k \in 1..(MaxRequests + 1), status \in ReplyStatus,
          text \in ConsoleTexts \cup {<< >>} :
            WorkerReply(k, status, text)
    \/ unhook

Spec == Init /\ [][Next]_vars

----------------------------------------------------------------------------
(* Replies that match no request *)

\* the messageIds of replies that match no request in flight: none at all,
\* and every id that is not in flight, whether postMessage never handed it
\* out or its request was answered before
StrayIds ==
    ({NoId} \cup (1..(MaxRequests + 2)))
        \ {activeMessages[k].messageId : k \in 1..Len(activeMessages)}

\* a message event of the worker with such a messageId reaches handleMessage
StrayReply(id, status) ==
    /\ ~cootWorker.terminated
    /\ id \in StrayIds
    /\ handleMessage([messageId |-> id, status |-> status,
                      consoleMessage |-> << >>])
    /\ UNCHANGED cootWorker
    /\ UNCHANGED mapVars

StrayNext ==
    \/ \E call \in CommandCalls : cootCommand(call[1], call[2])
    \/ \E kwargs \in DirectMessages : postMessageCall(kwargs)
    \/ \E k \in 1..(MaxRequests + 1), status \in ReplyStatus :
            WorkerReply(k, status, << >>)
    \/ \E id \in StrayIds, status \in ReplyStatus : StrayReply(id, status)

StraySpec == Init /\ [][StrayNext]_vars

----------------------------------------------------------------------------
(* A worker that answers *)

\* the worker answers one of the messages it has not answered
SomeReply ==
    \E k \in 1..(MaxRequests + 1), status \in ReplyStatus :
        WorkerReply(k, status, << >>)

LiveNext ==
    \/ \E call \in CommandCalls : cootCommand(call[1], call[2])
    \/ \E kwargs \in DirectMessages : postMessageCall(kwargs)
    \/ SomeReply
    \/ unhook

\* the callers may stop posting at any moment; a worker that is running does
\* not leave a message it has received unanswered for ever
LiveSpec == Init /\ [][LiveNext]_vars /\ WF_vars(SomeReply)

----------------------------------------------------------------------------
(* The map: MoorhenMap (src/baby-gru/src/utils/MoorhenMap.ts)

   An asynchronous operation of the map runs up to its first await in the
   step that calls it; what follows an await runs in the step that handles
   the reply it waits for (the continuation is a microtask of that
   handleMessage).  A step is computed on a record w of the variables it may
   change, which the operations transform in program order; Commit makes w
   the next state.  The logs of the command centre's own properties
   (resolutions, issued) and its console are not kept in the map's steps. *)

World ==
    [ activeMessages |-> activeMessages, history |-> history,
      cootWorker |-> cootWorker, nextId |-> nextId,
      map |-> map, glRef |-> glRef, buffers |-> buffers, calls |-> calls,
      events |-> << >> ]

Did(w, e, arg) == [w EXCEPT !.events = Append(@, Ev(e, arg))]

\* postMessage(kwargs), on w
postMessageIn(w, kwargs) ==
    LET entry == [messageId |-> w.nextId, kwargs |-> kwargs]
        newActive == Append(w.activeMessages, entry)
    IN  [w EXCEPT !.activeMessages = newActive,
                  !.cootWorker = workerPostMessage(@, entry),
                  !.nextId = @ + 1,
                  !.events = @ \o << Ev("push", entry.messageId) >>
                        \o (IF props.onActiveMessagesChanged
                            THEN << Ev("onActiveMessagesChanged", newActive) >>
                            ELSE << >>)
                        \o << Ev("workerPost", entry.messageId) >>]

\* cootCommand(kwargs, doJournal), on w
cootCommandIn(w, kwargs, doJournal) ==
    LET w1 == [w EXCEPT !.events = @ \o NewCommandEvents(<< kwargs >>)]
        w2 == IF ShouldJournal(kwargs, doJournal)
              THEN Did([w1 EXCEPT !.history = addEntry(@, kwargs)],
                       "addEntry", kwargs)
              ELSE w1
    IN  postMessageIn(w2, [message |-> "coot_command", kwargs |-> kwargs])

\* handleMessage(reply), on w
handleMessageIn(w, reply) ==
    LET matching == MatchingMessages(w.activeMessages, reply)
        remaining == RemainingMessages(w.activeMessages, reply)
    IN  [w EXCEPT !.activeMessages = remaining,
                  !.events = @
                        \o [k \in 1..Len(matching) |->
                                Ev("resolve", [request |-> matching[k].messageId,
                                               reply |-> reply.messageId])]
                        \o (IF props.onActiveMessagesChanged
                            THEN << Ev("onActiveMessagesChanged", remaining) >>
                            ELSE << >>)]

\* the in-flight set the observer received last in the step, if it was called
Reported(events) ==
    LET at == {k \in 1..Len(events) : events[k].e = "onActiveMessagesChanged"}
    IN  IF at = {} THEN reportedActive
        ELSE events[CHOOSE k \in at : \A j \in at : j <= k].arg

\* the step of operation `op` ends with w
Commit(w, op, args) ==
    /\ activeMessages' = w.activeMessages
    /\ history' = w.history
    /\ cootWorker' = w.cootWorker
    /\ nextId' = w.nextId
    /\ reportedActive' = Reported(w.events)
    /\ map' = w.map
    /\ glRef' = w.glRef
    /\ buffers' = w.buffers
    /\ calls' = w.calls
    /\ last' = [op |-> op, args |-> args, events |-> w.events]
    /\ UNCHANGED << props, consoleMessage, resolutions, cootInitialized,
                    issued, teardown >>

(* The promises of the map's operations: calls.made counts the calls of the
   map's operations, calls.pending holds the calls whose promise is pending,
   each with what it awaits, and calls.deleted tells that delete() was
   called. *)

\* the pending call numbered c
Call(w, c) == CHOOSE x \in w.calls.pending : x.id = c

\* the call of an async operation: its promise is pending
NewCall(w, op, args) ==
    [w EXCEPT !.calls.made = @ + 1,
              !.calls.pending = @ \cup
                    {[id |-> w.calls.made + 1, op |-> op, args |-> args,
                      found |-> 0, waits |-> {}]},
              !.calls.deleted = @ \/ op = "delete"]

\* call c, which is pending, awaits the reply to the message posted next
Awaits(w, c, stage, arg) ==
    [w EXCEPT !.calls.pending =
        {IF x.id = c
         THEN [x EXCEPT !.waits = @ \cup {[messageId |-> w.nextId,
                                           stage |-> stage, arg |-> arg]}]
         ELSE x : x \in @}]

\* await this.commandCentre.current.cootCommand(kwargs, doJournal) in call c:
\* what follows the await is `stage`
AwaitCommand(w, c, stage, arg, kwargs, doJournal) ==
    cootCommandIn(Awaits(w, c, stage, arg), kwargs, doJournal)

\* the same for a message posted with postMessage
AwaitMessage(w, c, stage, arg, kwargs) ==
    postMessageIn(Awaits(w, c, stage, arg), kwargs)

\* the promise of call c is resolved or rejected
Settle(w, c, state, value) ==
    Did([w EXCEPT !.calls.pending = {x \in @ : x.id # c}],
        state, [call |-> c, op |-> Call(w, c).op, value |-> value])

\* the reply that call c awaited under `wait` has arrived
Arrived(w, c, wait) ==
    [w EXCEPT !.calls.pending =
        {IF x.id = c THEN [x EXCEPT !.waits = @ \ {wait}] ELSE x : x \in @}]

\* an async operation returns (its promise resolves) when nothing it awaits
\* is outstanding
Return(w, c) ==
    IF (\E x \in w.calls.pending : x.id = c) /\ Call(w, c).waits = {}
    THEN Settle(w, c, "resolved", Null)
    ELSE w

\* an async operation that awaited nothing has returned
Returned(w, op) ==
    LET w1 == NewCall(w, op, << >>)
    IN  Return(w1, w1.calls.made)

\* a call of an operation that is not async
Called(w) == [w EXCEPT !.calls.made = @ + 1]

\* variant: the map declares the molecule of its commands as changed
Command_ChangesItsMolecule(command, returnType, commandArgs) ==
    [ command |-> command, returnType |-> returnType,
      commandArgs |-> commandArgs, changesMolecules |-> << "molNo" >> ]

\* a cootCommandKwargs of the map: none of them declares changesMolecules
Command(command, returnType, commandArgs) ==
    [ command |-> command, returnType |-> returnType,
      commandArgs |-> commandArgs, changesMolecules |-> Undefined ]

(* Loading *)

\* the selectedColumns a caller passes: with the isDifference key (true or
\* false) and without it
SelectedColumnsChoices ==
    { [F |-> "FWT", PHI |-> "PHWT", isDifference |-> d] :
        d \in {Null, Some(TRUE), Some(FALSE)} }

\* getSuggestedSettings(), up to its first await
getSuggestedSettings(w, c) ==
    AwaitCommand(w, c, "is_EM_map", Null,
                 Command("is_EM_map", "boolean", << w.map.molNo >>), FALSE)

\* loadToCootFromMtzData(data, name, selectedColumns), up to its first await
loadToCootFromMtzDataCall(w, selectedColumns) ==
    LET w1 == NewCall(w, "loadToCootFromMtzData",
                      [selectedColumns |-> selectedColumns])
    IN  AwaitCommand(w1, w1.calls.made, "shim_read_mtz", Null,
                     Command("shim_read_mtz", "status", << Null >>), TRUE)

\* variant: the status of the reply is not looked at
loadToCootFromMtzDataReply_IgnoresStatus(w, c, result) ==
    LET selectedColumns == Call(w, c).args.selectedColumns
        w1 == [w EXCEPT
                !.map.molNo = result.result,
                !.map.selectedColumns = Some(selectedColumns),
                !.map.isDifference =
                   IF selectedColumns.isDifference # Null
                   THEN selectedColumns.isDifference[1] ELSE @]
    IN  getSuggestedSettings(w1, c)

\* loadToCootFromMtzData after the reply to shim_read_mtz
loadToCootFromMtzDataReply(w, c, result) ==
    IF result.status = "Exception"
    THEN Settle(w, c, "rejected", Some(result.consoleMessage))
    ELSE LET selectedColumns == Call(w, c).args.selectedColumns
             w1 == [w EXCEPT
                     !.map.molNo = result.result,
                     !.map.selectedColumns = Some(selectedColumns),
                     !.map.isDifference =
                        IF selectedColumns.isDifference # Null
                        THEN selectedColumns.isDifference[1] ELSE @]
         IN  getSuggestedSettings(w1, c)

\* loadToCootFromMapData(data, name, isDiffMap), up to its first await
loadToCootFromMapDataCall(w, isDiffMap) ==
    LET w1 == NewCall(w, "loadToCootFromMapData", [isDiffMap |-> isDiffMap])
    IN  AwaitCommand(w1, w1.calls.made, "shim_read_ccp4_map", Null,
                     Command("shim_read_ccp4_map", "status", << Null >>), TRUE)

\* loadToCootFromMapData after the reply to shim_read_ccp4_map
loadToCootFromMapDataReply(w, c, result) ==
    IF result.status = "Exception"
    THEN Settle(w, c, "rejected", Some(result.consoleMessage))
    ELSE LET w1 == [w EXCEPT !.map.molNo = result.result,
                             !.map.isDifference = Call(w, c).args.isDiffMap]
         IN  getSuggestedSettings(w1, c)

\* fetchMapRmsd(), up to its await
fetchMapRmsd(w, c) ==
    AwaitCommand(w, c, "get_map_rmsd_approx", Null,
                 Command("get_map_rmsd_approx", "float", << w.map.molNo >>),
                 FALSE)

\* fetchMapRmsd().then(_ => this.estimateMapWeight()) after the reply
fetchMapRmsdReply(w, c, result) ==
    LET w1 == [w EXCEPT !.map.mapRmsd = result.result]
    IN  IF w1.map.mapRmsd = Null
        THEN fetchMapRmsd(w1, c)
        ELSE [w1 EXCEPT !.map.suggestedMapWeight = Some("50 * 0.3 / mapRmsd")]

\* fetchMapCentre(), up to its await
fetchMapCentre(w, c) ==
    AwaitCommand(w, c, "get_map_molecule_centre", Null,
                 Command("get_map_molecule_centre",
                         "map_molecule_centre_info_t", << w.map.molNo >>),
                 FALSE)

\* fetchMapCentre() after the reply
fetchMapCentreReply(w, c, result) ==
    LET info == result.result[1]
    IN  IF info.success
        THEN [w EXCEPT
                !.map.mapCentre = Some(info.updated_centre),
                !.map.suggestedContourLevel =
                    IF w.map.isEM THEN Some(info.suggested_contour_level) ELSE @,
                !.map.suggestedRadius =
                    IF w.map.isEM THEN Some(info.suggested_radius) ELSE @]
        ELSE [w EXCEPT !.map.mapCentre = Null]

\* the result of get_suggested_initial_contour_level that reports a failure
NoSuggestedLevel == -1

\* fetchSuggestedLevel(), up to its await
fetchSuggestedLevel(w, c) ==
    AwaitCommand(w, c, "get_suggested_initial_contour_level", Null,
                 Command("get_suggested_initial_contour_level", "float",
                         << w.map.molNo >>),
                 FALSE)

\* fetchSuggestedLevel() after the reply
fetchSuggestedLevelReply(w, c, result) ==
    [w EXCEPT !.map.suggestedContourLevel =
        IF result.result # Some(NoSuggestedLevel) THEN result.result ELSE Null]

\* setDefaultColour(): the waits of call c that belong to it
ColourWaits(w, c) ==
    {x \in Call(w, c).waits :
        x.stage \in {"is_valid_map_molecule", "is_a_difference_map"}}

\* setDefaultColour() once every molecule was looked at: the hue is shifted
\* by 10 per map that is valid and no difference map
setDefaultColourDone(w, c) ==
    IF ColourWaits(w, c) = {}
    THEN [w EXCEPT !.map.defaultMapColour = Some(10 * Call(w, c).found)]
    ELSE w

\* setDefaultColour(): is_valid_map_molecule for the molecules m .. n-1
RECURSIVE ValidityRequests(_, _, _, _)
ValidityRequests(w, c, m, n) ==
    IF m >= n THEN w
    ELSE ValidityRequests(
            AwaitCommand(w, c, "is_valid_map_molecule", Some(m),
                         Command("is_valid_map_molecule", "boolean",
                                 << Some(m) >>),
                         FALSE),
            c, m + 1, n)

\* setDefaultColour(), up to the first await of each of its callbacks
setDefaultColour(w, c) ==
    IF w.map.isDifference THEN w
    ELSE setDefaultColourDone(ValidityRequests(w, c, 0, w.map.molNo[1]), c)

\* setDefaultColour() after the reply to is_valid_map_molecule
isValidMapMoleculeReply(w, c, wait, result) ==
    IF ~result.result[1] THEN setDefaultColourDone(w, c)
    ELSE AwaitCommand(w, c, "is_a_difference_map", wait.arg,
                      Command("is_a_difference_map", "boolean", << wait.arg >>),
                      FALSE)

\* setDefaultColour() after the reply to is_a_difference_map
isADifferenceMapReply(w, c, result) ==
    setDefaultColourDone(
        [w EXCEPT !.calls.pending =
            {IF x.id = c /\ ~result.result[1]
             THEN [x EXCEPT !.found = @ + 1] ELSE x : x \in @}],
        c)

\* variant: the suggested level is fetched for EM maps as well
getSuggestedSettingsReply_LevelForEM(w, c, result) ==
    LET w1 == [w EXCEPT !.map.isEM = result.result[1]]
    IN  fetchSuggestedLevel(
            setDefaultColour(fetchMapCentre(fetchMapRmsd(w1, c), c), c), c)

\* getSuggestedSettings() after the reply to is_EM_map: Promise.all of the
\* four requests, each run up to its first await in the order of the array
getSuggestedSettingsReply(w, c, result) ==
    LET w1 == [w EXCEPT !.map.isEM = result.result[1]]
        w2 == fetchMapRmsd(w1, c)
        w3 == fetchMapCentre(w2, c)
        w4 == setDefaultColour(w3, c)
    IN  IF ~w1.map.isEM THEN fetchSuggestedLevel(w4, c) ELSE w4

(* Display buffers *)

\* the alpha values of the store when a contour pass reads it, in
\* thousandths: below and at the 0.98 of setupContourBuffers, and opaque
Alphas == {970, 980, 1000}
\* the alpha values of the store when a recolouring reads it: below and at
\* the 0.99 it tests for
RecolourAlphas == {970, 990}
\* mapAlpha < 0.98 (recolour every vertex), mapAlpha > 0.98 (custom colour)
AlphaRecolour == 980
\* mapAlpha < 0.99 (transparent)
AlphaOpaque == 990
\* _DEFAULT_ALPHA = 1.0
DefaultAlpha == 1000

\* the map styles of the store
Styles == {"lines", "solid"}

\* variant: lit-lines is not told from lines
ReturnType_LitAsLines(style) ==
    IF style = "solid" THEN "mesh_perm" ELSE "lines_mesh"

\* doCootContour: the returnType of a style
ReturnType(style) ==
    IF style = "solid" THEN "mesh_perm"
    ELSE IF style = "lit-lines" THEN "lit_lines_mesh"
    ELSE "lines_mesh"

\* the primitive types of the meshes the engine returns (prim_types[0][0])
PrimTypes == {"LINES", "TRIANGLES"}

\* the colour of a vertex: where it comes from and its red channel, in tenths
EngineColour(red) == [from |-> "engine", red |-> red]

\* a colour of the store: _DEFAULT_MAP_COLOUR (r 0.3),
\* _DEFAULT_POSITIVE_MAP_COLOUR (r 0.4), _DEFAULT_NEGATIVE_MAP_COLOUR (r 0.8)
StoreColour(name) ==
    [from |-> name,
     red |-> CASE name = "mapColour" -> 3
               [] name = "positiveMapColour" -> 4
               [] OTHER -> 8]

\* col < 0.5, in tenths
RedThreshold == 5
\* a vertex has four entries in a colour array: vertex idx is at offset idx*4
Stride == 4

\* a mesh: its primitive type (prim_types[0][0]), the vertex indexes of its
\* primitives (idx_tri[0][0], vertices numbered from 0) and the colours of
\* its vertices (col_tri[0][0]: vertex v is the (v+1)-th colour)
MeshOf(prim, idx, reds) ==
    [prim_types |-> prim, idx_tri |-> idx,
     col_tri |-> [v \in 1..Len(reds) |-> EngineColour(reds[v])]]

\* the mesh the engine returns for a style of the map shown
Mesh(prim) ==
    IF prim = "LINES" THEN MeshOf(prim, << 0, 1 >>, << 2, 5 >>)
    ELSE MeshOf(prim, << 1, 0, 1 >>, << 8, 2 >>)

\* MGWebGL.appendOtherData(object, true): a new display buffer of the object
\* is added to glRef.current.displayBuffers
appendOtherData(w, object) ==
    LET id == w.glRef.created + 1
        buffer == [ id |-> id, bufferTypes |-> object.prim_types,
                    triangleIndexs |-> object.idx_tri,
                    triangleColours |-> object.col_tri,
                    customColour |-> Null, transparent |-> FALSE,
                    isDirty |-> TRUE ]
    IN  Did([w EXCEPT
                !.glRef.created = id,
                !.glRef.displayBuffers = Append(@, id),
                !.buffers = [i \in (DOMAIN @) \cup {id} |->
                                IF i = id THEN buffer ELSE @[i]]],
            "appendOtherData", id)

\* buffer.setCustomColour(colour)
setCustomColour(buffer, colour) ==
    [buffer EXCEPT !.customColour = Some(colour), !.isDirty = TRUE]

\* variant: the renderer's list is emptied with the map's buffers
clearBuffersOfStyle_EmptiesRenderer(w, style) ==
    LET ids == w.map.displayObjects[style]
        gone == {ids[k] : k \in 1..Len(ids)}
    IN  [w EXCEPT
            !.glRef.displayBuffers = IF gone = {} THEN @ ELSE << >>,
            !.buffers = [i \in (DOMAIN @) \ gone |-> @[i]],
            !.map.displayObjects[style] = << >>,
            !.events = @ \o [k \in 1..Len(ids) |-> Ev("clearBuffers", ids[k])]]

\* clearBuffersOfStyle(style)
clearBuffersOfStyle(w, style) ==
    LET ids == w.map.displayObjects[style]
        gone == {ids[k] : k \in 1..Len(ids)}
    IN  [w EXCEPT
            !.glRef.displayBuffers = SelectSeq(@, LAMBDA id : id \notin gone),
            !.buffers = [i \in (DOMAIN @) \ gone |-> @[i]],
            !.map.displayObjects[style] = << >>,
            !.events = @ \o [k \in 1..Len(ids) |-> Ev("clearBuffers", ids[k])]]

\* for (idx = 0; idx < col.length; idx += 4): every vertex of a colour array
\* gets the colour
Paint(colbuffer, colour) == [v \in 1..Len(colbuffer) |-> colour]

\* variant: the offsets are taken for the numbers of the vertices
WriteColour_ByVertex(colbuffer, offsets, colour) ==
    [v \in 1..Len(colbuffer) |->
        IF \E k \in 1..Len(offsets) : offsets[k] = v - 1
        THEN colour ELSE colbuffer[v]]

\* for (const idx of offsets) colbuffer[idx..idx+2] = colour: the vertices at
\* the offsets get the colour
WriteColour(colbuffer, offsets, colour) ==
    [v \in 1..Len(colbuffer) |->
        IF \E k \in 1..Len(offsets) : offsets[k] = (v - 1) * Stride
        THEN colour ELSE colbuffer[v]]

\* the difference branch of setupContourBuffers before any index was looked
\* at: the clones of the object with empty index lists, and the local
\* partition
NoLobes(object) ==
    [ object |-> object,
      object_positive |-> [object EXCEPT !.idx_tri = << >>],
      object_negative |-> [object EXCEPT !.idx_tri = << >>],
      positiveDiffColour |-> << >>, negativeDiffColour |-> << >> ]

\* variant: the red channel is tested with <=
SplitLobes_AtThreshold(lobes, k) ==
    LET object == lobes.object
        idx == object.idx_tri[k]
    IN  IF object.col_tri[idx + 1].red <= RedThreshold
        THEN [lobes EXCEPT
                !.object_positive.idx_tri = Append(@, idx),
                !.positiveDiffColour = Append(@, idx * Stride),
                !.object_positive.col_tri[idx + 1] =
                        StoreColour("positiveMapColour")]
        ELSE [lobes EXCEPT
                !.object_negative.idx_tri = Append(@, idx),
                !.negativeDiffColour = Append(@, idx * Stride),
                !.object_negative.col_tri[idx + 1] =
                        StoreColour("negativeMapColour")]

\* the body of the loop over the indexes: the k-th index of the object goes to
\* one lobe
SplitLobes(lobes, k) ==
    LET object == lobes.object
        idx == object.idx_tri[k]
    IN  IF object.col_tri[idx + 1].red < RedThreshold
        THEN [lobes EXCEPT
                !.object_positive.idx_tri = Append(@, idx),
                !.positiveDiffColour = Append(@, idx * Stride),
                !.object_positive.col_tri[idx + 1] =
                        StoreColour("positiveMapColour")]
        ELSE [lobes EXCEPT
                !.object_negative.idx_tri = Append(@, idx),
                !.negativeDiffColour = Append(@, idx * Stride),
                !.object_negative.col_tri[idx + 1] =
                        StoreColour("negativeMapColour")]

\* the loop over the indexes, from the k-th on
RECURSIVE SplitFrom(_, _)
SplitFrom(lobes, k) ==
    IF k > Len(lobes.object.idx_tri) THEN lobes
    ELSE SplitFrom(SplitLobes(lobes, k), k + 1)

\* this.diffMapColourBuffers.x = this.diffMapColourBuffers.x.concat(local.x)
KeepPartition(held, computed) ==
    [ positiveDiffColour |->
            held.positiveDiffColour \o computed.positiveDiffColour,
      negativeDiffColour |->
            held.negativeDiffColour \o computed.negativeDiffColour ]

\* variant: any buffer the map holds is taken for one of the object's
\* primitive type
SamePrimitive_AnyHeld(w, object) ==
    Len(w.map.displayObjects.Coot) > 0

\* displayObjects["Coot"].length > 0 &&
\* object.prim_types[0][0] === displayObjects["Coot"][0].bufferTypes[0]
SamePrimitive(w, object) ==
    /\ Len(w.map.displayObjects.Coot) > 0
    /\ object.prim_types
            = w.buffers[w.map.displayObjects.Coot[1]].bufferTypes

\* setupContourBuffers: what is done for one object of `objects`
SetupObject(w, object, keepCootColours, mapAlpha) ==
    IF w.map.isDifference
    THEN LET lobes == SplitFrom(NoLobes(object), 1)
             w1 == clearBuffersOfStyle(Did(w, "split", lobes), "Coot")
             w2 == appendOtherData(w1, lobes.object_positive)
             a == w2.glRef.created
             w3 == appendOtherData(w2, lobes.object_negative)
             b == w3.glRef.created
             w4 == IF mapAlpha < AlphaOpaque
                   THEN [w3 EXCEPT !.buffers[a].transparent = TRUE,
                                   !.buffers[b].transparent = TRUE]
                   ELSE w3
         IN  [w4 EXCEPT
                !.map.diffMapColourBuffers =
                    KeepPartition(@, [positiveDiffColour |-> lobes.positiveDiffColour,
                                      negativeDiffColour |-> lobes.negativeDiffColour]),
                !.map.displayObjects.Coot = (@ \o << a >>) \o << b >>]
    ELSE IF ~keepCootColours
    THEN LET recoloured ==
                IF mapAlpha < AlphaRecolour
                THEN [object EXCEPT !.col_tri = Paint(@, StoreColour("mapColour"))]
                ELSE object
             held == w.map.displayObjects.Coot
         IN  IF SamePrimitive(w, recoloured)
             THEN LET w1 == IF mapAlpha > AlphaRecolour
                            THEN [w EXCEPT !.buffers[held[1]] =
                                                setCustomColour(@, "mapColour")]
                            ELSE [w EXCEPT !.buffers[held[1]].triangleColours
                                                = recoloured.col_tri]
                  IN  Did([w1 EXCEPT
                                !.buffers[held[1]].triangleIndexs = recoloured.idx_tri,
                                !.buffers[held[1]].isDirty = TRUE],
                          "mutate", held[1])
             ELSE LET w1 == clearBuffersOfStyle(w, "Coot")
                      w2 == appendOtherData(w1, recoloured)
                      a == w2.glRef.created
                      w3 == IF mapAlpha > AlphaRecolour
                            THEN [w2 EXCEPT !.buffers[a] =
                                                setCustomColour(@, "mapColour")]
                            ELSE w2
                  IN  [w3 EXCEPT !.map.displayObjects.Coot = @ \o << a >>]
    ELSE LET w1 == clearBuffersOfStyle(w, "Coot")
             w2 == appendOtherData(w1, object)
         IN  [w2 EXCEPT !.map.displayObjects.Coot = @ \o << w2.glRef.created >>]

RECURSIVE SetupObjects(_, _, _, _)
SetupObjects(w, objects, keepCootColours, mapAlpha) ==
    IF objects = << >> THEN w
    ELSE SetupObjects(SetupObject(w, Head(objects), keepCootColours, mapAlpha),
                      Tail(objects), keepCootColours, mapAlpha)

\* variant: the renderer rebuilds and redraws once for every buffer the map
\* holds after the pass
setupContourBuffers_PerBuffer(w, objects, keepCootColours, mapAlpha) ==
    LET present == SelectSeq(objects, LAMBDA o : o # Null)
        meshes == [k \in 1..Len(present) |-> present[k][1]]
        w1 == SetupObjects(w, meshes, keepCootColours, mapAlpha)
    IN  [w1 EXCEPT !.events = @ \o
            [k \in 1..(2 * Len(w1.map.displayObjects.Coot)) |->
                IF k % 2 = 1 THEN Ev("buildBuffers", << >>)
                ELSE Ev("drawScene", << >>)]]

\* setupContourBuffers(objects, keepCootColours): the objects that are
\* undefined or null are skipped; objects holds them as Null or Some(mesh)
setupContourBuffers(w, objects, keepCootColours, mapAlpha) ==
    LET present == SelectSeq(objects, LAMBDA o : o # Null)
        meshes == [k \in 1..Len(present) |-> present[k][1]]
        w1 == SetupObjects(w, meshes, keepCootColours, mapAlpha)
    IN  Did(Did(w1, "buildBuffers", << >>), "drawScene", << >>)

(* Contouring *)

\* doCootContour: the command of the contour request
ContourCommand(w, style) ==
    IF w.map.otherMapForColouring # Null
    THEN Command("get_map_contours_mesh_using_other_map_for_colours",
                 ReturnType(style),
                 << w.map.molNo, w.map.otherMapForColouring >>)
    ELSE Command("get_map_contours_mesh", ReturnType(style), << w.map.molNo >>)

\* drawMapContour() -> doCootContour(...), up to its await
doCootContourCall(w, style) ==
    LET w1 == NewCall(w, "doCootContour", [style |-> style])
    IN  AwaitCommand(w1, w1.calls.made, "get_map_contours_mesh", Null,
                     ContourCommand(w1, style), FALSE)

\* variant: the pass never keeps the colours of the engine
doCootContourReply_NeverKeeps(w, c, result, mapAlpha) ==
    setupContourBuffers(w, << result.result >>, FALSE, mapAlpha)

\* doCootContour after the reply
doCootContourReply(w, c, result, mapAlpha) ==
    setupContourBuffers(w, << result.result >>,
                        w.map.otherMapForColouring # Null, mapAlpha)

\* hideMapContour()
hideMapContourCall(w) ==
    Did(Did(clearBuffersOfStyle(w, "Coot"), "buildBuffers", << >>),
        "drawScene", << >>)

\* fetchIsDifferenceMap() after the reply
fetchIsDifferenceMapReply(w, c, result) ==
    [w EXCEPT !.map.isDifference = result.result[1]]

\* fetchIsDifferenceMap(), up to its await
fetchIsDifferenceMapCall(w) ==
    LET w1 == NewCall(w, "fetchIsDifferenceMap", << >>)
    IN  AwaitCommand(w1, w1.calls.made, "fetchIsDifferenceMap", Null,
                     Command("is_a_difference_map", "boolean", << w.map.molNo >>),
                     FALSE)

(* Recolouring *)

\* displayObjects['Coot'].forEach(buffer => ...): each buffer of `ids`
\* becomes changed[its id]
ForEachBuffer(w, ids, changed) ==
    [w EXCEPT !.buffers =
        [i \in DOMAIN @ |->
            IF i \in {ids[k] : k \in 1..Len(ids)} THEN changed[i] ELSE @[i]]]

\* variant: difference maps are not turned away
setColourCall_NoGuard(w, redraw, mapAlpha) ==
    LET w1 == [w EXCEPT !.map.otherMapForColouring = Null]
        recolour(buffer) ==
           IF mapAlpha < AlphaOpaque
           THEN [buffer EXCEPT
                   !.customColour = Null,
                   !.transparent = TRUE,
                   !.triangleColours = Paint(@, StoreColour("mapColour")),
                   !.isDirty = TRUE]
           ELSE [setCustomColour(buffer, "mapColour")
                   EXCEPT !.transparent = FALSE]
        w2 == ForEachBuffer(w1, w1.map.displayObjects.Coot,
                            [i \in DOMAIN w1.buffers |-> recolour(w1.buffers[i])])
        w3 == IF mapAlpha < AlphaOpaque
              THEN Did(w2, "buildBuffers", << >>) ELSE w2
    IN  IF redraw THEN Did(w3, "drawScene", << >>) ELSE w3

\* setColour(redraw)
setColourCall(w, redraw, mapAlpha) ==
    IF w.map.isDifference THEN w
    ELSE LET w1 == [w EXCEPT !.map.otherMapForColouring = Null]
             recolour(buffer) ==
                IF mapAlpha < AlphaOpaque
                THEN [buffer EXCEPT
                        !.customColour = Null,
                        !.transparent = TRUE,
                        !.triangleColours = Paint(@, StoreColour("mapColour")),
                        !.isDirty = TRUE]
                ELSE [setCustomColour(buffer, "mapColour")
                        EXCEPT !.transparent = FALSE]
             w2 == ForEachBuffer(w1, w1.map.displayObjects.Coot,
                                 [i \in DOMAIN w1.buffers |-> recolour(w1.buffers[i])])
             w3 == IF mapAlpha < AlphaOpaque
                   THEN Did(w2, "buildBuffers", << >>) ELSE w2
         IN  IF redraw THEN Did(w3, "drawScene", << >>) ELSE w3

\* the colour of the store that a type of fetchDiffMapColourAndRedraw names
DiffColour(type) ==
    IF type = "positiveDiffColour" THEN "positiveMapColour"
    ELSE "negativeMapColour"

\* variant: the opaque path gives both buffers the colour and rebuilds them
fetchDiffMapColourAndRedrawCall_BothBuffers(w, type, mapAlpha) ==
    IF ~w.map.isDifference THEN w
    ELSE LET held == w.map.displayObjects.Coot
             recolour(buffer) ==
                [buffer EXCEPT
                    !.customColour = Null,
                    !.transparent = TRUE,
                    !.triangleColours =
                        WriteColour(@, w.map.diffMapColourBuffers[type],
                                    StoreColour(DiffColour(type))),
                    !.isDirty = TRUE]
             uniform(buffer) ==
                [setCustomColour(buffer, DiffColour(type))
                    EXCEPT !.transparent = FALSE]
             w1 == IF mapAlpha < AlphaOpaque
                   THEN ForEachBuffer(w, held,
                            [i \in DOMAIN w.buffers |-> recolour(w.buffers[i])])
                   ELSE ForEachBuffer(w, held,
                            [i \in DOMAIN w.buffers |-> uniform(w.buffers[i])])
         IN  Did(Did(w1, "buildBuffers", << >>), "drawScene", << >>)

\* fetchDiffMapColourAndRedraw(type)
fetchDiffMapColourAndRedrawCall(w, type, mapAlpha) ==
    IF ~w.map.isDifference THEN w
    ELSE LET held == w.map.displayObjects.Coot
             recolour(buffer) ==
                [buffer EXCEPT
                    !.customColour = Null,
                    !.transparent = TRUE,
                    !.triangleColours =
                        WriteColour(@, w.map.diffMapColourBuffers[type],
                                    StoreColour(DiffColour(type))),
                    !.isDirty = TRUE]
             lobe == IF type = "positiveDiffColour" THEN 1 ELSE 2
             uniform(buffer) ==
                [setCustomColour(buffer, DiffColour(type))
                    EXCEPT !.transparent = FALSE]
             w1 == IF mapAlpha < AlphaOpaque
                   THEN Did(ForEachBuffer(w, held,
                                [i \in DOMAIN w.buffers |-> recolour(w.buffers[i])]),
                            "buildBuffers", << >>)
                   ELSE IF Len(held) = 2
                   THEN ForEachBuffer(w, << held[lobe] >>,
                                [i \in DOMAIN w.buffers |-> uniform(w.buffers[i])])
                   ELSE w
         IN  Did(w1, "drawScene", << >>)

\* variant: the new alpha is applied by contouring again
fetchMapAlphaAndRedrawCall_Recontours(w, mapAlpha) ==
    cootCommandIn(w, ContourCommand(w, "lines"), FALSE)

\* fetchMapAlphaAndRedraw()
fetchMapAlphaAndRedrawCall(w, mapAlpha) ==
    LET realpha(buffer) ==
            LET custom == buffer.customColour # Null
                b1 == [buffer EXCEPT !.isDirty = TRUE]
            IN  IF mapAlpha < AlphaOpaque
                THEN [b1 EXCEPT
                        !.transparent = TRUE,
                        !.customColour = Null,
                        !.triangleColours =
                            IF custom
                            THEN Paint(@, StoreColour("mapColour"))
                            ELSE @]
                ELSE LET b2 == [b1 EXCEPT !.transparent = FALSE]
                     IN  IF custom THEN setCustomColour(b2, "mapColour")
                         ELSE b2
        w1 == ForEachBuffer(w, w.map.displayObjects.Coot,
                           [i \in DOMAIN w.buffers |-> realpha(w.buffers[i])])
    IN  Did(Did(w1, "buildBuffers", << >>), "drawScene", << >>)

(* Deleting *)

\* variant: delete_file_name is posted whether or not reflection data is held
DeleteFileNeeded_Always(w) == TRUE

\* delete(): this.hasReflectionData ? postMessage(...) : Promise.resolve(true)
DeleteFileNeeded(w) == w.map.hasReflectionData

\* delete(), up to its await
deleteCall(w) ==
    LET w1 == IF Len(w.map.displayObjects.Coot) > 0
              THEN clearBuffersOfStyle(w, "Coot") ELSE w
        w2 == NewCall(Did(w1, "drawScene", << >>), "delete", << >>)
        c == w2.calls.made
        w3 == AwaitCommand(w2, c, "close_molecule", Null,
                           Command("close_molecule", "status", << w2.map.molNo >>),
                           TRUE)
    IN  IF DeleteFileNeeded(w3)
        THEN AwaitMessage(w3, c, "delete_file_name", Null,
                          [message |-> "delete_file_name",
                           fileName |-> w3.map.associatedReflectionFileName])
        ELSE w3

(* Replacing, blurring and the reflection data *)

\* await fetch(fileUrl) in call c: what follows the await is `stage`; no
\* message stands for it
AwaitFetch(w, c, stage) ==
    [w EXCEPT !.calls.pending =
        {IF x.id = c
         THEN [x EXCEPT !.waits = @ \cup {[messageId |-> NoId, stage |-> stage,
                                           arg |-> Null]}]
         ELSE x : x \in @}]

\* replaceMapWithMtzFile(fileUrl, selectedColumns), up to its await of fetch;
\* style is the mapStyle that drawMapContour() finds in the store
replaceMapWithMtzFileCall(w, selectedColumns, style) ==
    LET w1 == NewCall(w, "replaceMapWithMtzFile",
                      [selectedColumns |-> selectedColumns, style |-> style])
    IN  AwaitFetch(w1, w1.calls.made, "fetch")

\* what fetch(fileUrl) may do: throw, or give a response that is not ok, or
\* one that is ok
FetchOutcomes == {"throws", "not ok", "ok"}

\* replaceMapWithMtzFile after fetch, up to its await of the engine
replaceMapWithMtzFileFetched(w, c, outcome) ==
    CASE outcome = "throws" ->
            Settle(w, c, "rejected", Some("Unable to fetch file"))
      [] outcome = "not ok" ->
            Settle(w, c, "rejected", Some("Error fetching data from url"))
      [] OTHER ->
            AwaitCommand(w, c, "shim_replace_map_by_mtz_from_file", Null,
                         Command("shim_replace_map_by_mtz_from_file", "status",
                                 << w.map.molNo, "mtzData",
                                    Call(w, c).args.selectedColumns >>),
                         TRUE)

\* variant: the map is contoured whatever the status of the reply
replaceMapWithMtzFileReply_AlwaysContours(w, c, result) ==
    AwaitCommand(w, c, "get_map_contours_mesh", Null,
                 ContourCommand(w, Call(w, c).args.style), FALSE)

\* replaceMapWithMtzFile after the reply of the engine
replaceMapWithMtzFileReply(w, c, result) ==
    IF result.status = "Completed"
    THEN AwaitCommand(w, c, "get_map_contours_mesh", Null,
                      ContourCommand(w, Call(w, c).args.style), FALSE)
    ELSE Settle(w, c, "rejected", Some(result.status))

\* blur(bFactor): returns the promise of the command
blurCall(w, bFactor) ==
    LET w1 == NewCall(w, "blur", [bFactor |-> bFactor])
    IN  AwaitCommand(w1, w1.calls.made, "sharpen_blur_map", Null,
                     Command("sharpen_blur_map", "status",
                             << w.map.molNo, bFactor, TRUE >>),
                     TRUE)

\* !selectedColumns.Fobs || !selectedColumns.SigFobs || !selectedColumns.FreeR
MissingColumn(selectedColumns) ==
    \E key \in {"Fobs", "SigFobs", "FreeR"} :
        key \notin DOMAIN selectedColumns \/ selectedColumns[key] = ""

\* { ...this.selectedColumns, ...selectedColumns }
Spread(held, selectedColumns) ==
    LET old == IF held = Null THEN << >> ELSE held[1]
    IN  [key \in (DOMAIN old) \cup (DOMAIN selectedColumns) |->
            IF key \in DOMAIN selectedColumns THEN selectedColumns[key]
            ELSE old[key]]

\* associateToReflectionData(selectedColumns, reflectionData), up to its await
associateToReflectionDataCall(w, selectedColumns) ==
    LET w1 == NewCall(w, "associateToReflectionData",
                      [selectedColumns |-> selectedColumns])
        c == w1.calls.made
    IN  IF MissingColumn(selectedColumns)
        THEN Return(w1, c)
        ELSE AwaitCommand(w1, c, "shim_associate_data_mtz_file_with_map", Null,
                          Command("shim_associate_data_mtz_file_with_map",
                                  "status",
                                  << w1.map.molNo, "uniqueId",
                                     selectedColumns.Fobs,
                                     selectedColumns.SigFobs,
                                     selectedColumns.FreeR >>),
                          FALSE)

\* variant: the status of the reply is not looked at
associateToReflectionDataReply_AnyStatus(w, c, result) ==
    [w EXCEPT
        !.map.hasReflectionData = TRUE,
        !.map.selectedColumns =
            Some(Spread(@, Call(w, c).args.selectedColumns)),
        !.map.associatedReflectionFileName = result.result]

\* associateToReflectionData after the reply
associateToReflectionDataReply(w, c, result) ==
    IF result.status = "Completed"
    THEN [w EXCEPT
            !.map.hasReflectionData = TRUE,
            !.map.selectedColumns =
                Some(Spread(@, Call(w, c).args.selectedColumns)),
            !.map.associatedReflectionFileName = result.result]
    ELSE w

\* fetchReflectionData()
fetchReflectionDataCall(w) ==
    LET w1 == NewCall(w, "fetchReflectionData", << >>)
        c == w1.calls.made
    IN  IF w1.map.hasReflectionData
        THEN AwaitMessage(w1, c, "get_mtz_data", Null,
                          [message |-> "get_mtz_data", molNo |-> w1.map.molNo,
                           fileName |-> w1.map.associatedReflectionFileName])
        ELSE Return(w1, c)

(* The engine's replies: reply.data.result *)

Completed(result) ==
    [status |-> "Completed", result |-> result, consoleMessage |-> ""]
Exception(diagnostic) ==
    [status |-> "Exception", result |-> Null, consoleMessage |-> diagnostic]

\* the molecule number the engine gives the map it reads: molecule 0 is
\* another map, loaded before
NewMolNo == 1

\* the command a posted message asks for
CommandOf(entry) ==
    IF entry.kwargs.message = "coot_command" THEN entry.kwargs.kwargs.command
    ELSE entry.kwargs.message

ContourCommands ==
    {"get_map_contours_mesh", "get_map_contours_mesh_using_other_map_for_colours"}

\* the names the engine gives the reflection files it stores
ReflectionFiles == {"reflections", "reflections-2"}

\* what the engine may answer to a command
WorkerResults(command) ==
    CASE command \in {"shim_read_mtz", "shim_read_ccp4_map"} ->
            {Completed(Some(NewMolNo)), Exception("diagnostic")}
      [] command \in {"is_EM_map", "is_valid_map_molecule", "is_a_difference_map"} ->
            {Completed(Some(b)) : b \in BOOLEAN}
      [] command = "get_map_rmsd_approx" ->
            {Completed(Some("rmsd"))}
      [] command = "get_map_molecule_centre" ->
            {Completed(Some([success |-> s, updated_centre |-> "centre",
                             suggested_contour_level |-> 2,
                             suggested_radius |-> 70])) : s \in BOOLEAN}
      [] command = "get_suggested_initial_contour_level" ->
            {Completed(Some(NoSuggestedLevel)), Completed(Some(1))}
      [] command \in ContourCommands ->
            {Completed(Some(Mesh(p))) : p \in PrimTypes}
                \cup {Exception("diagnostic")}
      [] command = "shim_replace_map_by_mtz_from_file" ->
            {Completed(Some(0)), Exception("diagnostic")}
      [] command = "shim_associate_data_mtz_file_with_map" ->
            {Completed(Some(fileName)) : fileName \in ReflectionFiles}
                \cup {Exception("diagnostic")}
      [] OTHER ->
            {Completed(Some(0))}

\* what follows the await of call c that `wait` stands for
Continue(w, c, wait, result, mapAlpha) ==
    LET w1 == Arrived(w, c, wait)
    IN  Return(
          CASE wait.stage = "shim_read_mtz" ->
                    loadToCootFromMtzDataReply(w1, c, result)
            [] wait.stage = "shim_read_ccp4_map" ->
                    loadToCootFromMapDataReply(w1, c, result)
            [] wait.stage = "is_EM_map" ->
                    getSuggestedSettingsReply(w1, c, result)
            [] wait.stage = "get_map_rmsd_approx" ->
                    fetchMapRmsdReply(w1, c, result)
            [] wait.stage = "get_map_molecule_centre" ->
                    fetchMapCentreReply(w1, c, result)
            [] wait.stage = "get_suggested_initial_contour_level" ->
                    fetchSuggestedLevelReply(w1, c, result)
            [] wait.stage = "is_valid_map_molecule" ->
                    isValidMapMoleculeReply(w1, c, wait, result)
            [] wait.stage = "is_a_difference_map" ->
                    isADifferenceMapReply(w1, c, result)
            [] wait.stage = "get_map_contours_mesh" ->
                    doCootContourReply(w1, c, result, mapAlpha)
            [] wait.stage = "fetchIsDifferenceMap" ->
                    fetchIsDifferenceMapReply(w1, c, result)
            [] wait.stage = "shim_replace_map_by_mtz_from_file" ->
                    replaceMapWithMtzFileReply(w1, c, result)
            [] wait.stage = "shim_associate_data_mtz_file_with_map" ->
                    associateToReflectionDataReply(w1, c, result)
            [] OTHER -> w1,
          c)

\* the waits, with their calls, that the reply to message `id` ends
WaitsFor(id) ==
    {cw \in UNION {{[c |-> x.id, wait |-> y] : y \in x.waits} :
                        x \in calls.pending} :
        cw.wait.messageId = id}

\* the reply to the k-th message the worker received, carrying `result`,
\* reaches handleMessage, which resolves the request's promise, and the
\* operation that awaits it goes on; mapAlpha is the alpha of the store then
HandleReply(k, result, mapAlpha) ==
    LET m == cootWorker.received[k]
        waiting == WaitsFor(m.messageId)
        reply == [messageId |-> m.messageId, consoleMessage |-> << >>,
                  result |-> result, mapAlpha |-> mapAlpha]
        w0 == handleMessageIn(
                [World EXCEPT !.cootWorker.answered = @ \cup {m.messageId}],
                reply)
        w1 == IF waiting = {} THEN w0
              ELSE LET cw == CHOOSE cw \in waiting : TRUE
                   IN  Continue(w0, cw.c, cw.wait, result, mapAlpha)
    IN  Commit(w1, "handleMessage", [reply |-> reply])

\* the engine answers the k-th message it received
MapWorkerReply(k) ==
    /\ ~cootWorker.terminated
    /\ k \in Unanswered
    /\ \E result \in WorkerResults(CommandOf(cootWorker.received[k])),
          mapAlpha \in (IF CommandOf(cootWorker.received[k]) \in ContourCommands
                        THEN Alphas ELSE {DefaultAlpha}) :
            HandleReply(k, result, mapAlpha)

(* The meshes of the engine, for the properties of the lobes *)

\* vertices of a mesh
MaxVertices == 2
\* indexes of a mesh's index list
MaxIndexes == 3

\* red channels of the engine's colours, in tenths: below, at and above the
\* threshold
Reds == {2, 5, 8}

\* the index lists over the vertices 0 .. MaxVertices-1
IndexLists == UNION {[1..n -> 0..(MaxVertices - 1)] : n \in 0..MaxIndexes}

\* the meshes the engine may return
Meshes ==
    {MeshOf("LINES", idx, reds) :
        idx \in IndexLists, reds \in [1..MaxVertices -> Reds]}

\* the engine answers a contour request, the k-th message it received, with
\* any of the meshes
MeshReply(k) ==
    /\ ~cootWorker.terminated
    /\ k \in Unanswered
    /\ CommandOf(cootWorker.received[k]) \in ContourCommands
    /\ \E mesh \in Meshes, mapAlpha \in RecolourAlphas :
            HandleReply(k, Completed(Some(mesh)), mapAlpha)

----------------------------------------------------------------------------
(* Bound of the map's operations *)

\* calls of the map's operations
MaxCalls == 2

\* delete() was called: the application issues no operation on a map it
\* has deleted
Disposed == calls.deleted

\* a load is in progress
Loading ==
    \E x \in calls.pending :
        x.op \in {"loadToCootFromMtzData", "loadToCootFromMapData"}

\* the application may call an operation of the map
MayCall == calls.made < MaxCalls /\ ~Disposed

(* The operations of the map, as the application calls them *)

loadToCootFromMtzData(selectedColumns) ==
    /\ MayCall
    /\ map.molNo = Null
    /\ ~Loading
    /\ Commit(loadToCootFromMtzDataCall(World, selectedColumns),
              "loadToCootFromMtzData", [selectedColumns |-> selectedColumns])

loadToCootFromMapData(isDiffMap) ==
    /\ MayCall
    /\ map.molNo = Null
    /\ ~Loading
    /\ Commit(loadToCootFromMapDataCall(World, isDiffMap),
              "loadToCootFromMapData", [isDiffMap |-> isDiffMap])

drawMapContour(style) ==
    /\ MayCall
    /\ Commit(doCootContourCall(World, style), "drawMapContour",
              [style |-> style])

hideMapContour ==
    /\ MayCall
    /\ Commit(Called(hideMapContourCall(World)), "hideMapContour", << >>)

fetchIsDifferenceMap ==
    /\ MayCall
    /\ Commit(fetchIsDifferenceMapCall(World), "fetchIsDifferenceMap", << >>)

setColour(redraw, mapAlpha) ==
    /\ MayCall
    /\ Commit(Returned(setColourCall(World, redraw, mapAlpha), "setColour"),
              "setColour", [redraw |-> redraw, mapAlpha |-> mapAlpha])

fetchDiffMapColourAndRedraw(type, mapAlpha) ==
    /\ MayCall
    /\ Commit(Returned(fetchDiffMapColourAndRedrawCall(World, type, mapAlpha),
                       "fetchDiffMapColourAndRedraw"),
              "fetchDiffMapColourAndRedraw",
              [type |-> type, mapAlpha |-> mapAlpha])

fetchMapAlphaAndRedraw(mapAlpha) ==
    /\ MayCall
    /\ Commit(Returned(fetchMapAlphaAndRedrawCall(World, mapAlpha),
                       "fetchMapAlphaAndRedraw"),
              "fetchMapAlphaAndRedraw", [mapAlpha |-> mapAlpha])

\* setOtherMapForColouring(molNo)
setOtherMapForColouring(molNo) ==
    /\ MayCall
    /\ Commit(Called([World EXCEPT !.map.otherMapForColouring = molNo]),
              "setOtherMapForColouring", [molNo |-> molNo])

\* delete() once the map is no longer shown to the user: the last call
delete ==
    /\ ~Disposed
    /\ Commit(deleteCall(World), "delete", << >>)

----------------------------------------------------------------------------
(* The specifications of the map *)

\* the command centre once the handshake has completed, nothing in flight
Ready ==
    /\ props = [ onConsoleChanged |-> TRUE, onNewCommand |-> TRUE,
                 onActiveMessagesChanged |-> TRUE, onCootInitialized |-> TRUE ]
    /\ activeMessages = << >>
    /\ history = << >>
    /\ consoleMessage = << >>
    /\ cootWorker = [ received |-> << [messageId |-> InitId, kwargs |-> InitMessage] >>,
                      answered |-> {InitId}, terminated |-> FALSE, console |-> 0 ]
    /\ nextId = InitId + 1
    /\ resolutions = << [request |-> InitId, reply |-> InitId] >>
    /\ reportedActive = << >>
    /\ cootInitialized = 1
    /\ issued = << >>
    /\ teardown = [ done |-> FALSE, activeMessages |-> << >>,
                    resolutions |-> << >>, consoleMessage |-> << >> ]
    /\ last = [ op |-> "handleMessage",
                args |-> [reply |-> [messageId |-> InitId, status |-> "Completed",
                                     consoleMessage |-> << >>]],
                events |-> << Ev("resolve", [request |-> InitId, reply |-> InitId]),
                              Ev("onActiveMessagesChanged", << >>),
                              Ev("onCootInitialized", << >>) >> ]

\* loading: a new map and the command centre
LoadInit ==
    /\ Ready
    /\ map = NewMap
    /\ glRef = NewRenderer
    /\ buffers = << >>
    /\ calls = NoCalls

LoadNext ==
    \/ \E selectedColumns \in SelectedColumnsChoices :
            loadToCootFromMtzData(selectedColumns)
    \/ \E isDiffMap \in BOOLEAN : loadToCootFromMapData(isDiffMap)
    \/ \E k \in 1..Len(cootWorker.received) : MapWorkerReply(k)

LoadSpec == LoadInit /\ [][LoadNext]_vars

\* the maps a load leaves: a CCP4 map, or an MTZ map with reflection data
LoadedMaps ==
    { [ NewMap EXCEPT
            !.molNo = Some(NewMolNo),
            !.isDifference = d,
            !.hasReflectionData = r,
            !.associatedReflectionFileName =
                IF r THEN Some("reflections") ELSE Null,
            !.selectedColumns =
                IF r THEN Some([F |-> "FWT", PHI |-> "PHWT",
                                isDifference |-> Some(d)])
                ELSE Null,
            !.mapRmsd = Some("rmsd"),
            !.suggestedMapWeight = Some("50 * 0.3 / mapRmsd"),
            !.mapCentre = Some("centre"),
            !.suggestedContourLevel = Some(1) ] :
        d \in BOOLEAN, r \in BOOLEAN }

\* the display buffer of another map that shares the renderer
OtherMapBuffer ==
    [ id |-> 1, bufferTypes |-> "LINES",
      triangleIndexs |-> Mesh("LINES").idx_tri,
      triangleColours |-> Mesh("LINES").col_tri,
      customColour |-> Some("mapColour"), transparent |-> FALSE,
      isDirty |-> FALSE ]

\* a loaded map in a renderer that shows another map
LoadedWorld(loaded) ==
    [ map |-> loaded,
      glRef |-> [displayBuffers |-> << OtherMapBuffer.id >>,
                 created |-> OtherMapBuffer.id],
      buffers |-> [i \in {OtherMapBuffer.id} |-> OtherMapBuffer],
      events |-> << >> ]

\* the same, not contoured yet or after a contour pass of the default style
\* and alpha
DisplayedWorlds ==
    {LoadedWorld(loaded) : loaded \in LoadedMaps}
        \cup {setupContourBuffers(LoadedWorld(loaded), << Some(Mesh("LINES")) >>,
                                  FALSE, DefaultAlpha) : loaded \in LoadedMaps}

\* displaying: a loaded map in a renderer that shows another map as well
MapInit ==
    /\ Ready
    /\ \E w \in DisplayedWorlds :
            /\ map = w.map
            /\ glRef = w.glRef
            /\ buffers = w.buffers
    /\ calls = NoCalls

MapNext ==
    \/ \E style \in Styles : drawMapContour(style)
    \/ hideMapContour
    \/ fetchIsDifferenceMap
    \/ \E redraw \in BOOLEAN, mapAlpha \in RecolourAlphas :
            setColour(redraw, mapAlpha)
    \/ \E type \in {"positiveDiffColour", "negativeDiffColour"},
          mapAlpha \in RecolourAlphas :
            fetchDiffMapColourAndRedraw(type, mapAlpha)
    \/ \E mapAlpha \in RecolourAlphas : fetchMapAlphaAndRedraw(mapAlpha)
    \/ \E molNo \in {Some(0)} : setOtherMapForColouring(molNo)
    \/ delete
    \/ \E k \in 1..Len(cootWorker.received) : MapWorkerReply(k)

MapSpec == MapInit /\ [][MapNext]_vars

----------------------------------------------------------------------------
(* The data of the map: replacing, blurring, the reflection data and
   deleting *)

\* the application replaces, blurs or associates a map that the engine holds
\* (map.molNo # Null)

\* the selectedColumns a caller passes to associateToReflectionData: Fobs
\* is a column or empty, FreeR is a column or left out
AssociateColumns(fobs, freeR) ==
    IF freeR = Null THEN [Fobs |-> fobs, SigFobs |-> "SIGFP"]
    ELSE [Fobs |-> fobs, SigFobs |-> "SIGFP", FreeR |-> freeR[1]]

replaceMapWithMtzFile(selectedColumns, style) ==
    /\ MayCall
    /\ map.molNo # Null
    /\ Commit(replaceMapWithMtzFileCall(World, selectedColumns, style),
              "replaceMapWithMtzFile",
              [selectedColumns |-> selectedColumns, style |-> style])

\* fetch(fileUrl), awaited by call c, throws or gives its response
fetchSettles(c, outcome) ==
    \E x \in calls.pending :
        /\ x.id = c
        /\ \E wait \in x.waits :
            /\ wait.stage = "fetch"
            /\ Commit(Return(replaceMapWithMtzFileFetched(
                                Arrived(World, c, wait), c, outcome), c),
                      "fetch", [call |-> c, outcome |-> outcome])

blur(bFactor) ==
    /\ MayCall
    /\ map.molNo # Null
    /\ Commit(blurCall(World, bFactor), "blur", [bFactor |-> bFactor])

associateToReflectionData(selectedColumns) ==
    /\ MayCall
    /\ map.molNo # Null
    /\ Commit(associateToReflectionDataCall(World, selectedColumns),
              "associateToReflectionData",
              [selectedColumns |-> selectedColumns])

fetchReflectionData ==
    /\ MayCall
    /\ map.molNo # Null
    /\ Commit(fetchReflectionDataCall(World), "fetchReflectionData", << >>)

\* a map loaded from an MTZ file with its reflection data, displayed or not
ReplaceInit == MapInit /\ ~map.isDifference /\ map.hasReflectionData

\* the engine answers the k-th message it received while the store holds
\* the default alpha
OpaqueWorkerReply(k) ==
    /\ ~cootWorker.terminated
    /\ k \in Unanswered
    /\ \E result \in WorkerResults(CommandOf(cootWorker.received[k])) :
            HandleReply(k, result, DefaultAlpha)

\* replacing and blurring the map
ReplaceNext ==
    \/ \E isDifference \in {FALSE}, style \in {"lines"} :
            replaceMapWithMtzFile([isDifference |-> Some(isDifference),
                                   F |-> "FWT", PHI |-> "PHWT"], style)
    \/ \E c \in 1..MaxCalls, outcome \in FetchOutcomes : fetchSettles(c, outcome)
    \/ \E bFactor \in {20} : blur(bFactor)
    \/ delete
    \/ \E k \in 1..Len(cootWorker.received) : OpaqueWorkerReply(k)

ReplaceSpec == ReplaceInit /\ [][ReplaceNext]_vars

\* the reflection data of a displayed map
ReflectionNext ==
    \/ \E fobs \in {"FP", ""}, freeR \in {Null, Some("FREE")} :
            associateToReflectionData(AssociateColumns(fobs, freeR))
    \/ fetchReflectionData
    \/ delete
    \/ \E k \in 1..Len(cootWorker.received) : MapWorkerReply(k)

ReflectionSpec == MapInit /\ [][ReflectionNext]_vars

\* the styles of doCootContour: "solid" | "lines" | "lit-lines"
ContourStyles == Styles \cup {"lit-lines"}

\* the lobes: a loaded difference map is contoured once, in any style and
\* with any mesh, and recoloured
LobeInit ==
    /\ Ready
    /\ \E loaded \in {m \in LoadedMaps : m.isDifference} :
            /\ map = LoadedWorld(loaded).map
            /\ glRef = LoadedWorld(loaded).glRef
            /\ buffers = LoadedWorld(loaded).buffers
    /\ calls = NoCalls

LobeNext ==
    \/ calls.made = 0 /\ \E style \in ContourStyles : drawMapContour(style)
    \/ \E type \in {"positiveDiffColour", "negativeDiffColour"},
          mapAlpha \in RecolourAlphas :
            fetchDiffMapColourAndRedraw(type, mapAlpha)
    \/ \E k \in 1..Len(cootWorker.received) : MeshReply(k)

LobeSpec == LobeInit /\ [][LobeNext]_vars

----------------------------------------------------------------------------
(* Vocabulary of the properties *)

\* the ids postMessage has handed out
PostedIds == 1..(nextId - 1)

\* how often request `id` had its promise resolved
TimesResolved(id) ==
    Cardinality({k \in 1..Len(resolutions) : resolutions[k].request = id})

\* the positions of the events named `e` in what the last operation did
EventsAt(e) == {k \in 1..Len(last.events) : last.events[k].e = e}

\* a descriptor that declares a non-empty list of entities it changes
DeclaresChanges(kwargs) ==
    /\ kwargs.changesMolecules # Undefined
    /\ kwargs.changesMolecules # << >>

\* the descriptors of the issue log that their call put into the journal
RECURSIVE JournaledOf(_)
JournaledOf(log) ==
    IF log = << >> THEN << >>
    ELSE LET e == Head(log)
         IN (IF e.doJournal /\ (e.list \/ DeclaresChanges(e.kwargs))
             THEN << e.kwargs >> ELSE << >>) \o JournaledOf(Tail(log))

IsPrefix(s, t) == Len(s) <= Len(t) /\ SubSeq(t, 1, Len(s)) = s

----------------------------------------------------------------------------
(* C1: every request's promise is resolved at most once, with the reply that
   carries the request's own messageId, and it is resolved exactly when the
   reply to it has been handled, whatever the order of the replies. *)
C1_ResolvedOnceByOwnReply ==
    /\ \A k \in 1..Len(resolutions) :
            /\ resolutions[k].reply = resolutions[k].request
            /\ resolutions[k].request \in PostedIds
    /\ \A id \in PostedIds :
            /\ TimesResolved(id) = (IF id \in cootWorker.answered THEN 1 ELSE 0)
            /\ (TimesResolved(id) = 0) <=>
                    (\E k \in 1..Len(activeMessages) :
                        activeMessages[k].messageId = id)

\* three requests were in flight together and were answered out of send order
C1_Witness ==
    /\ Len(resolutions) = 3
    /\ resolutions[1].request = 3
    /\ resolutions[2].request = 1
    /\ resolutions[3].request = 2

(* C2: the history is the sequence of the journaled descriptors in the order
   in which they were issued, whatever the order of the replies. *)
C2_JournalInIssueOrder == history = JournaledOf(issued)

\* two journaled calls, the reply to the second handled before the reply to
\* the first
C2_Witness ==
    /\ history = << refine, refine, flipPeptide, mergeMolecules >>
    /\ Len(issued) = 4
    /\ issued[1].messageId = 2
    /\ issued[2].messageId = 3
    /\ \E i, j \in 1..Len(resolutions) :
            /\ i < j
            /\ resolutions[i].request = 3
            /\ resolutions[j].request = 2

(* C3: cootCommand appends its descriptor to the history if and only if
   journal is true and the descriptor declares a non-empty changesMolecules;
   the append comes before the message is posted to the worker; no reply,
   whatever its status, and no teardown changes the history. *)
C3_JournalBeforeSend ==
    [][ /\ last'.op = "cootCommand" =>
            LET kwargs == last'.args.kwargs
                journal == last'.args.doJournal /\ DeclaresChanges(kwargs)
                appends == {k \in 1..Len(last'.events) :
                                last'.events[k].e = "addEntry"}
                posts == {k \in 1..Len(last'.events) :
                                last'.events[k].e = "workerPost"}
            IN  /\ history' = IF journal THEN Append(history, kwargs) ELSE history
                /\ Cardinality(appends) = (IF journal THEN 1 ELSE 0)
                /\ Cardinality(posts) = 1
                /\ \A a \in appends, q \in posts : a < q
        /\ last'.op \in {"handleMessage", "unhook"} => history' = history
      ]_vars

\* a journaled cootCommand whose reply reported an exception
C3_Witness ==
    /\ last.op = "handleMessage"
    /\ last.args.reply.status = "Exception"
    /\ \E k \in 1..Len(issued) :
            /\ issued[k].messageId = last.args.reply.messageId
            /\ ~issued[k].list
            /\ issued[k].doJournal
            /\ issued[k].kwargs = refine
    /\ history = << refine >>

(* C4: a cootCommandList call with journaling on appends to the history
   exactly the descriptors of the list that declare a non-empty
   changesMolecules, in list order, and none of the others. *)
C4_ListJournalsMarkedOnly ==
    [][ (last'.op = "cootCommandList" /\ last'.args.doJournal) =>
            history' = history \o SelectSeq(last'.args.commandList, DeclaresChanges)
      ]_vars

RECURSIVE IsOrderedSubSeq(_, _)
IsOrderedSubSeq(s, t) ==
    IF s = << >> THEN TRUE
    ELSE IF t = << >> THEN FALSE
    ELSE IF Head(s) = Head(t) THEN IsOrderedSubSeq(Tail(s), Tail(t))
    ELSE IsOrderedSubSeq(s, Tail(t))

(* C5: a cootCommandList call, whatever the length of its list, creates one
   pending request with one fresh messageId and posts one message, which
   carries the whole list; addEntry is called per descriptor, in list order,
   and the history keeps what it held. *)
C5_ListPostsOneMessage ==
    [][ last'.op = "cootCommandList" =>
            LET list == last'.args.commandList
                entry == [messageId |-> nextId,
                          kwargs |-> [message |-> "coot_command_list",
                                      commandList |-> list]]
                events == last'.events
                named(e) == {k \in 1..Len(events) : events[k].e = e}
                appends == SelectSeq(events, LAMBDA ev : ev.e = "addEntry")
                appended == [k \in 1..Len(appends) |-> appends[k].arg]
            IN  /\ nextId' = nextId + 1
                /\ activeMessages' = Append(activeMessages, entry)
                /\ Cardinality(named("push")) = 1
                /\ Cardinality(named("workerPost")) = 1
                /\ \A k \in named("workerPost") : events[k].arg = nextId
                /\ cootWorker'.received =
                        IF cootWorker.terminated THEN cootWorker.received
                        ELSE Append(cootWorker.received, entry)
                /\ IsPrefix(history, history')
                /\ IsOrderedSubSeq(appended, list)
                /\ last'.args.doJournal => Len(appended) > 0 \/ list = << >>
      ]_vars

\* a journaled list of three descriptors was posted while the worker runs
C5_Witness ==
    /\ last.op = "cootCommandList"
    /\ last.args.doJournal
    /\ Len(last.args.commandList) = 3
    /\ ~cootWorker.terminated
    /\ Len(cootWorker.received) = 3
    /\ Len(history) > 3

(* C6: with an onNewCommand observer registered, cootCommand calls it once
   with its descriptor and cootCommandList once per descriptor in list order,
   and every such call comes before any history append and before the
   message is registered and posted. *)
C6_ObserverBeforeDispatch ==
    (props.onNewCommand /\ last.op \in {"cootCommand", "cootCommandList"}) =>
        LET descriptors == IF last.op = "cootCommand"
                           THEN << last.args.kwargs >>
                           ELSE last.args.commandList
        IN  /\ EventsAt("onNewCommand") = 1..Len(descriptors)
            /\ \A k \in 1..Len(descriptors) : last.events[k].arg = descriptors[k]
            /\ Cardinality(EventsAt("workerPost")) = 1
            /\ \A o \in EventsAt("onNewCommand"),
                  x \in EventsAt("addEntry") \cup EventsAt("push")
                            \cup EventsAt("workerPost") : o < x

\* a journaled list of three descriptors was issued under an observer
C6_Witness ==
    /\ props.onNewCommand
    /\ last.op = "cootCommandList"
    /\ last.args.doJournal
    /\ Len(last.args.commandList) = 3
    /\ EventsAt("addEntry") # {}

(* C7, as stated: after unhook() no promise pending at teardown is resolved,
   its entry stays in the in-flight set, and neither onActiveMessagesChanged
   nor onConsoleChanged is invoked again. *)
C7_NoObserverAfterUnhook ==
    teardown.done =>
        /\ resolutions = teardown.resolutions
        /\ IsPrefix(teardown.activeMessages, activeMessages)
        /\ EventsAt("onActiveMessagesChanged") = {}
        /\ EventsAt("onConsoleChanged") = {}

(* C7, amended: after unhook() no reply is handled: no promise is resolved,
   the entries pending at teardown stay in the in-flight set, the console log
   and onConsoleChanged are left alone and onCootInitialized is not invoked;
   onActiveMessagesChanged is invoked only by a postMessage made after the
   teardown. *)
C7_NoReplyAfterUnhook ==
    teardown.done =>
        /\ resolutions = teardown.resolutions
        /\ IsPrefix(teardown.activeMessages, activeMessages)
        /\ consoleMessage = teardown.consoleMessage
        /\ last.op # "handleMessage"
        /\ EventsAt("resolve") = {}
        /\ EventsAt("extendConsoleMessage") = {}
        /\ EventsAt("onConsoleChanged") = {}
        /\ EventsAt("onCootInitialized") = {}
        /\ EventsAt("onActiveMessagesChanged") # {} =>
                last.op \in {"postMessage", "cootCommand", "cootCommandList"}

\* unhook() came with a request pending that the worker had received, after
\* another was answered, and a request was posted after the teardown
C7_Witness ==
    /\ teardown.done
    /\ teardown.resolutions # << >>
    /\ teardown.activeMessages # << >>
    /\ \E k \in 1..Len(cootWorker.received) :
            cootWorker.received[k] \in
                {teardown.activeMessages[j] : j \in 1..Len(teardown.activeMessages)}
    /\ Len(activeMessages) > Len(teardown.activeMessages)

(* C8: with an onActiveMessagesChanged observer registered, the constructor,
   every postMessage and every handled reply call it once, after the change
   and with the in-flight set as it then is; so the set reported last is the
   in-flight set, and it is non-empty exactly while a posted request has had
   no reply handled. *)
C8_ReportedIsInFlight ==
    props.onActiveMessagesChanged =>
        /\ reportedActive = activeMessages
        /\ (reportedActive # << >>) <=> (PostedIds \ cootWorker.answered # {})
        /\ last.op # "unhook" =>
                /\ Cardinality(EventsAt("onActiveMessagesChanged")) = 1
                /\ \A k \in EventsAt("onActiveMessagesChanged") :
                        /\ last.events[k].arg = activeMessages
                        /\ \A x \in EventsAt("push") \cup EventsAt("resolve") : x < k

\* busy, then idle again: three requests were posted and all were answered
C8_Witness ==
    /\ props.onActiveMessagesChanged
    /\ reportedActive = << >>
    /\ Len(resolutions) = 3
    /\ last.op = "handleMessage"

\* the length of "TRUNCATED TO [" and "]"
MarkerLength == Len(TruncatedPrefix) + 1

(* C9, as stated: the text handleMessage surfaces for one reply is at most
   160 units long. *)
C9_SurfacedAtMost160 ==
    \A k \in EventsAt("extendConsoleMessage") :
        Len(last.events[k].arg) <= ConsoleLimit

(* C9, amended: the text handleMessage surfaces for one reply holds at most
   the first 160 units of the worker's text; a longer text is cut to them and
   wrapped in "TRUNCATED TO [" and "]", which makes at most 175 units. *)
C9_SurfacedAtMost175 ==
    last.op = "handleMessage" =>
        LET text == last.args.reply.consoleMessage
        IN  /\ EventsAt("extendConsoleMessage") # {} <=>
                    (props.onConsoleChanged /\ text # << >>)
            /\ \A k \in EventsAt("extendConsoleMessage") :
                LET m == last.events[k].arg
                IN  /\ Len(m) <= ConsoleLimit + MarkerLength
                    /\ IF Len(text) <= ConsoleLimit THEN m = text
                       ELSE /\ Len(m) = ConsoleLimit + MarkerLength
                            /\ SubSeq(m, 1, Len(TruncatedPrefix)) = TruncatedPrefix
                            /\ SubSeq(m, Len(TruncatedPrefix) + 1,
                                      Len(TruncatedPrefix) + ConsoleLimit)
                                   = SubSeq(text, 1, ConsoleLimit)
                            /\ m[Len(m)] = "]"

\* a reply with a console text of 161 units was surfaced
C9_Witness ==
    /\ last.op = "handleMessage"
    /\ Len(last.args.reply.consoleMessage) = ConsoleLimit + 1
    /\ EventsAt("extendConsoleMessage") # {}

(* C10: with an onCootInitialized callback registered, it has been invoked
   once if the reply to the constructor's CootInitialize message has been
   handled and not at all before; it is invoked in the handling of that reply,
   after the promise was resolved, and by no other reply. *)
C10_InitializedOnceAfterHandshake ==
    props.onCootInitialized =>
        /\ cootInitialized = (IF InitId \in cootWorker.answered THEN 1 ELSE 0)
        /\ \A k \in EventsAt("onCootInitialized") :
                /\ last.op = "handleMessage"
                /\ last.args.reply.messageId = InitId
                /\ EventsAt("onCootInitialized") = {k}
                /\ \E x \in EventsAt("resolve") :
                        x < k /\ last.events[x].arg.request = InitId

\* the handshake reply came second of three replies
C10_Witness ==
    /\ props.onCootInitialized
    /\ cootInitialized = 1
    /\ Len(resolutions) = 3
    /\ resolutions[2].request = InitId

\* the messageIds of the entries of a sequence of requests
IdsOf(messages) == {messages[k].messageId : k \in 1..Len(messages)}

\* the requests issued through cootCommand or cootCommandList
IssuedIds == {issued[k].messageId : k \in 1..Len(issued)}

(* C11: CootInitialize is the first message the worker receives; a command
   issued while the handshake reply is outstanding is registered in the
   in-flight set and posted to the worker behind CootInitialize like any
   other, and it is in flight until its own reply is handled, which resolves
   its promise, whether or not the handshake has completed by then. *)
C11_QueuedBehindHandshake ==
    /\ Len(cootWorker.received) >= 1
    /\ cootWorker.received[1] = [messageId |-> InitId, kwargs |-> InitMessage]
    /\ \A id \in IssuedIds :
            IF id \in cootWorker.answered
            THEN /\ TimesResolved(id) = 1
                 /\ id \notin IdsOf(activeMessages)
            ELSE /\ TimesResolved(id) = 0
                 /\ id \in IdsOf(activeMessages)
    /\ (last.op \in {"cootCommand", "cootCommandList"}
            /\ InitId \notin cootWorker.answered) =>
            LET entry == activeMessages[Len(activeMessages)]
            IN  /\ Cardinality(EventsAt("push")) = 1
                /\ \A k \in EventsAt("push") :
                        last.events[k].arg = entry.messageId
                /\ entry.kwargs.message \in {"coot_command", "coot_command_list"}
                /\ EventsAt("reject") = {}
                /\ ~cootWorker.terminated =>
                        /\ Len(cootWorker.received) > 1
                        /\ cootWorker.received[Len(cootWorker.received)] = entry

\* a command was issued and its reply handled, both before the handshake
\* reply
C11_Witness ==
    /\ last.op = "handleMessage"
    /\ last.args.reply.messageId \in IssuedIds
    /\ InitId \notin cootWorker.answered
    /\ TimesResolved(last.args.reply.messageId) = 1

(* C12: no step of the command centre removes, reorders or replaces an entry
   of the history: the history before a step is a prefix of the history
   after it. *)
C12_HistoryAppendOnly == [][IsPrefix(history, history')]_vars

\* the history grew twice, a reply was handled and the worker was torn down
C12_Witness ==
    /\ teardown.done
    /\ Len(history) >= 4
    /\ Len(issued) >= 4
    /\ issued[1].messageId # issued[Len(issued)].messageId
    /\ teardown.resolutions # << >>

(* C13: an entry leaves the in-flight set only in the handling of a reply
   that carries its messageId; no promise is rejected; so a request whose
   reply has not been handled is in the in-flight set with its promise
   pending, also after later requests were answered and after unhook(). *)
C13_LeavesOnlyByOwnReply ==
    [][ /\ \A k \in 1..Len(activeMessages) :
            LET m == activeMessages[k]
            IN  m.messageId \notin IdsOf(activeMessages') =>
                    /\ last'.op = "handleMessage"
                    /\ last'.args.reply.messageId = m.messageId
        /\ \A k \in 1..Len(activeMessages') :
            \A r \in 1..Len(resolutions') :
                resolutions'[r].request # activeMessages'[k].messageId
        /\ {j \in 1..Len(last'.events) : last'.events[j].e = "reject"} = {}
        /\ IsOrderedSubSeq(
                SelectSeq(activeMessages,
                          LAMBDA m : m.messageId \in IdsOf(activeMessages')),
                activeMessages')
      ]_vars

\* the handshake request is still in flight after the two requests posted
\* after it were answered and the worker was torn down
C13_Witness ==
    /\ teardown.done
    /\ Len(resolutions) = 2
    /\ activeMessages # << >>
    /\ activeMessages[1].messageId = InitId
    /\ \A k \in 1..Len(resolutions) : resolutions[k].request > InitId

\* the ids that were given to requests so far: a request is in flight or its
\* promise was resolved
UsedIds == IdsOf(activeMessages) \cup {resolutions[k].request : k \in 1..Len(resolutions)}

(* C14: no two in-flight entries carry the same messageId and none carries
   an empty one; the id a postMessage call gives its request is the id of no
   request made before it, in flight or answered. *)
C14_MessageIdsDistinct ==
    [][ /\ \A i, j \in 1..Len(activeMessages') :
            i # j => activeMessages'[i].messageId # activeMessages'[j].messageId
        /\ \A i \in 1..Len(activeMessages') :
            activeMessages'[i].messageId # NoId
        /\ last'.op \in {"postMessage", "cootCommand", "cootCommandList"} =>
            LET pushed == {last'.events[k].arg :
                            k \in {j \in 1..Len(last'.events) :
                                        last'.events[j].e = "push"}}
            IN  /\ Cardinality(pushed) = 1
                /\ pushed \cap UsedIds = {}
                /\ pushed \cap cootWorker.answered = {}
                /\ pushed \cap IdsOf(cootWorker.received) = {}
                /\ IdsOf(activeMessages') = IdsOf(activeMessages) \cup pushed
      ]_vars

\* two requests are in flight, the later one posted after the id of another
\* request was used and retired
C14_Witness ==
    /\ Len(activeMessages) = 2
    /\ Len(resolutions) = 1
    /\ resolutions[1].request = 2
    /\ last.op \in {"postMessage", "cootCommand", "cootCommandList"}

----------------------------------------------------------------------------
(* Vocabulary of the map's properties *)

\* the last step handled a reply of the engine
EngineReplied ==
    last.op = "handleMessage" /\ "result" \in DOMAIN last.args.reply

\* the message that reply answers, as the worker received it
RequestOf(reply) ==
    LET at == CHOOSE k \in 1..Len(cootWorker.received) :
                    cootWorker.received[k].messageId = reply.messageId
    IN  cootWorker.received[at]

\* the command the last step's reply answers
RepliedCommand == CommandOf(RequestOf(last.args.reply))

\* the events e of the last step, in order
EventsOf(e) == SelectSeq(last.events, LAMBDA x : x.e = e)

\* the promises of `op` the last step settled as `state`
Settled(state, op) ==
    SelectSeq(EventsOf(state), LAMBDA x : x.arg.op = op)

LoadOps == {"loadToCootFromMtzData", "loadToCootFromMapData"}
LoadCommands == {"shim_read_mtz", "shim_read_ccp4_map"}

\* the last step handled the reply to a read command that reports an Exception
LoadFailed ==
    /\ EngineReplied
    /\ RepliedCommand \in LoadCommands
    /\ last.args.reply.result.status = "Exception"

----------------------------------------------------------------------------
(* C15: when the reply to shim_read_mtz or shim_read_ccp4_map has status
   'Exception', the load's promise is rejected with the diagnostic of the
   reply, the map is unloaded again (molNo stays null, no load in progress),
   isDifference and selectedColumns keep the values they had, and the step
   posts nothing: no suggested-settings command is issued. *)
C15_FailedLoadRejects ==
    [][LoadFailed' =>
        /\ \E op \in LoadOps :
            /\ Len(Settled("rejected", op)') = 1
            /\ Settled("rejected", op)'[1].arg.value
                    = Some(last'.args.reply.result.consoleMessage)
        /\ EventsOf("resolved")' = << >>
        /\ map'.molNo = Null
        /\ ~Loading'
        /\ map'.isDifference = map.isDifference
        /\ map'.selectedColumns = map.selectedColumns
        /\ EventsOf("workerPost")' = << >>
        /\ EventsOf("onNewCommand")' = << >>
        /\ activeMessages' = << >>]_vars

\* the second load, from MTZ data, was rejected
C15_Witness ==
    /\ LoadFailed
    /\ RepliedCommand = "shim_read_mtz"
    /\ Settled("rejected", "loadToCootFromMtzData") # << >>
    /\ calls.made = 2

----------------------------------------------------------------------------
\* the requests of getSuggestedSettings the claim names
SettingsCommands ==
    {"is_EM_map", "get_map_rmsd_approx", "get_map_molecule_centre",
     "get_suggested_initial_contour_level"}

\* the messages asking for `command` that the worker received, and those of
\* them it has answered
Received(command) ==
    {k \in 1..Len(cootWorker.received) :
        CommandOf(cootWorker.received[k]) = command}
Answered(command) ==
    {k \in Received(command) :
        cootWorker.received[k].messageId \in cootWorker.answered}

\* the last step handled the reply to a read command that completed
LoadSucceeded ==
    /\ EngineReplied
    /\ RepliedCommand \in LoadCommands
    /\ last.args.reply.result.status = "Completed"

\* the last step resolved the promise of a load
LoadResolved == \E op \in LoadOps : Settled("resolved", op) # << >>

\* the load whose promise is pending
PendingLoad == CHOOSE x \in calls.pending : x.op \in LoadOps

\* the difference flag the caller of a load supplied, if any
CallerFlag(call) ==
    IF call.op = "loadToCootFromMapData" THEN Some(call.args.isDiffMap)
    ELSE call.args.selectedColumns.isDifference

(* C16: the step that handles a completed load reply assigns molNo from the
   reply while no suggested-settings request was issued yet, and sets
   isDifference to the flag the caller supplied; every suggested-settings
   request carries the assigned molNo; the load's promise resolves only when
   is_EM_map, the rmsd request and the map-centre request, and for a non-EM
   map the suggested-contour-level request, were issued and answered; for an
   EM map no suggested-contour-level request is ever issued. *)
C16_LoadAssignsThenFetches ==
    [][/\ LoadSucceeded' =>
            /\ \A c \in SettingsCommands : Received(c) = {}
            /\ map'.molNo = last'.args.reply.result.result
            /\ map'.molNo # Null
            /\ CallerFlag(PendingLoad) # Null =>
                    map'.isDifference = CallerFlag(PendingLoad)[1]
       /\ \A c \in SettingsCommands : \A k \in Received(c)' :
            /\ map'.molNo # Null
            /\ cootWorker'.received[k].kwargs.kwargs.commandArgs
                    = << map'.molNo >>
       /\ LoadResolved' =>
            /\ \A c \in SettingsCommands \ {"get_suggested_initial_contour_level"} :
                    Answered(c)' # {} /\ Answered(c)' = Received(c)'
            /\ ~map'.isEM =>
                LET c == "get_suggested_initial_contour_level"
                IN  Answered(c)' # {} /\ Answered(c)' = Received(c)'
            /\ CallerFlag(PendingLoad) # Null =>
                    map'.isDifference = CallerFlag(PendingLoad)[1]
       /\ map'.isEM => Received("get_suggested_initial_contour_level")' = {}
      ]_vars

\* a load from MTZ data whose columns say isDifference: false resolved, for a
\* map that is not an EM map
C16_Witness ==
    /\ LoadResolved
    /\ Settled("resolved", "loadToCootFromMtzData") # << >>
    /\ map.selectedColumns # Null
    /\ map.selectedColumns[1].isDifference = Some(FALSE)
    /\ ~map.isDifference
    /\ ~map.isEM
    /\ Answered("get_suggested_initial_contour_level") # {}
    /\ map.molNo = Some(NewMolNo)

----------------------------------------------------------------------------
\* the elements of a sequence
Range(seq) == {seq[k] : k \in 1..Len(seq)}

\* the display buffers the map holds
HeldBuffers == Range(map.displayObjects.Coot)

\* the messages a step posted: `before` and `after` are what the worker had
\* received at the start and at the end of the step
Posted(before, after) == SubSeq(after, Len(before) + 1, Len(after))

\* those of `posted` that ask for `command`
Asking(posted, command) ==
    SelectSeq(posted, LAMBDA m : CommandOf(m) = command)

(* C17: the step of delete() leaves displayObjects empty and none of the
   buffers the map held in the renderer's displayBuffers, posts exactly one
   close_molecule command, for the map's molNo, and posts one
   delete_file_name message for the associated reflection file if
   hasReflectionData is true and none otherwise; the promise of delete()
   resolves only when every one of these requests was answered. *)
C17_DeleteReleasesAll ==
    [][/\ last'.op = "delete" =>
            LET posted == Posted(cootWorker.received, cootWorker'.received)
                closes == Asking(posted, "close_molecule")
                files == Asking(posted, "delete_file_name")
            IN  /\ map'.displayObjects = [Coot |-> << >>]
                /\ \A id \in HeldBuffers :
                        /\ id \notin Range(glRef'.displayBuffers)
                        /\ id \notin DOMAIN buffers'
                /\ Len(closes) = 1
                /\ closes[1].kwargs.kwargs.commandArgs = << map.molNo >>
                /\ Len(files) = (IF map.hasReflectionData THEN 1 ELSE 0)
                /\ \A k \in 1..Len(files) :
                        files[k].kwargs.fileName = map.associatedReflectionFileName
                /\ Len(posted) = Len(closes) + Len(files)
                /\ Settled("resolved", "delete")' = << >>
       /\ Settled("resolved", "delete")' # << >> =>
            /\ Received("close_molecule")' # {}
            /\ Answered("close_molecule")' = Received("close_molecule")'
            /\ map'.hasReflectionData => Received("delete_file_name")' # {}
            /\ Answered("delete_file_name")' = Received("delete_file_name")'
      ]_vars

\* delete() of a map that held reflection data and two display buffers has
\* resolved: the renderer shows the other map's buffer only
C17_Witness ==
    /\ Settled("resolved", "delete") # << >>
    /\ map.hasReflectionData
    /\ Answered("delete_file_name") # {}
    /\ Answered("close_molecule") # {}
    /\ glRef.created = OtherMapBuffer.id + 2
    /\ glRef.displayBuffers = << OtherMapBuffer.id >>
    /\ map.displayObjects.Coot = << >>

----------------------------------------------------------------------------
\* the last step handled the reply to a contour request
ContourReplied == EngineReplied /\ RepliedCommand \in ContourCommands

\* the contour requests whose reply is outstanding
PendingContours == {x \in calls.pending : x.op = "doCootContour"}

(* C18: when delete() was called while one contour request of the map was
   pending, the step that handles the reply to that request attaches no
   display buffer to the map or to the renderer and calls neither
   buildBuffers nor drawScene. *)
C18_ReplyAfterDeleteDiscarded ==
    [][(Disposed /\ Cardinality(PendingContours) = 1 /\ ContourReplied') =>
          /\ map'.displayObjects = map.displayObjects
          /\ glRef' = glRef
          /\ buffers' = buffers
          /\ EventsOf("appendOtherData")' = << >>
          /\ EventsOf("buildBuffers")' = << >>
          /\ EventsOf("drawScene")' = << >>
      ]_vars

----------------------------------------------------------------------------
\* the recolouring operations
RecolourOps == {"setColour", "fetchDiffMapColourAndRedraw", "fetchMapAlphaAndRedraw"}

\* the contour requests the worker received
ContourRequests == UNION {Received(c) : c \in ContourCommands}

(* C19: a step of setColour, fetchDiffMapColourAndRedraw or
   fetchMapAlphaAndRedraw posts no message to the engine and leaves the
   in-flight set as it was, whatever the state of the map; a step of
   drawMapContour (doCootContour) posts exactly one message, a contour-mesh
   request for the map's molNo with the returnType of the style. *)
C19_RecolourPostsNothing ==
    [][/\ last'.op \in RecolourOps =>
            /\ cootWorker' = cootWorker
            /\ activeMessages' = activeMessages
            /\ EventsOf("workerPost")' = << >>
       /\ last'.op = "drawMapContour" =>
            LET posted == Posted(cootWorker.received, cootWorker'.received)
            IN  /\ Len(posted) = 1
                /\ Len(EventsOf("workerPost")') = 1
                /\ CommandOf(posted[1]) \in ContourCommands
                /\ posted[1].kwargs.kwargs.returnType
                        = ReturnType(last'.args.style)
                /\ Head(posted[1].kwargs.kwargs.commandArgs) = map.molNo
                /\ Len(activeMessages') = Len(activeMessages) + 1
      ]_vars

\* a map that holds display buffers was contoured again and, with the
\* request pending, its alpha was changed and the scene redrawn: the one
\* contour request is all the engine received
C19_Witness ==
    /\ last.op = "fetchMapAlphaAndRedraw"
    /\ HeldBuffers # {}
    /\ EventsOf("drawScene") # << >>
    /\ Cardinality(PendingContours) = 1
    /\ Cardinality(ContourRequests) = 1
    /\ Len(cootWorker.received) = 2

----------------------------------------------------------------------------
\* the last step handled the reply to a contour request that carries a mesh:
\* a contour pass was completed
ContourPassed ==
    /\ ContourReplied
    /\ last.args.reply.result.status = "Completed"
    /\ last.args.reply.result.result # Null

(* C20: after every completed contour pass of a map that was not deleted,
   whatever contour passes, recolourings, hideMapContour calls and changes of
   isDifference by fetchIsDifferenceMap came before, the map holds exactly
   two display buffers, the positive lobe first and the negative lobe second,
   when isDifference is true, and at most one when isDifference is false. *)
C20_BuffersMatchFlag ==
    (ContourPassed /\ ~Disposed) =>
        LET held == map.displayObjects.Coot
        IN  IF map.isDifference
            THEN /\ Len(held) = 2
                 /\ \A idx \in Range(buffers[held[1]].triangleIndexs) :
                        buffers[held[1]].triangleColours[idx + 1]
                            = StoreColour("positiveMapColour")
                 /\ \A idx \in Range(buffers[held[2]].triangleIndexs) :
                        buffers[held[2]].triangleColours[idx + 1]
                            = StoreColour("negativeMapColour")
            ELSE Len(held) <= 1

----------------------------------------------------------------------------
\* the colours of the store a buffer is coloured from: its custom colour and
\* the colours of its vertices
ColouredFrom(buffer) ==
    {buffer.customColour[k] : k \in 1..Len(buffer.customColour)}
        \cup {buffer.triangleColours[v].from :
                    v \in 1..Len(buffer.triangleColours)}

\* the colour pair of difference maps
PairColours == {"positiveMapColour", "negativeMapColour"}

(* C21: while isDifference is not changed by fetchIsDifferenceMap, after any
   sequence of contour passes, setColour, fetchDiffMapColourAndRedraw and
   fetchMapAlphaAndRedraw no buffer of a difference map is coloured from the
   single map colour and no buffer of a map that is no difference map is
   coloured from the positive/negative pair. *)
C21_ColourBranchesExclusive ==
    Received("is_a_difference_map") = {} =>
        \A id \in HeldBuffers :
            IF map.isDifference
            THEN "mapColour" \notin ColouredFrom(buffers[id])
            ELSE ColouredFrom(buffers[id]) \cap PairColours = {}

----------------------------------------------------------------------------
(* C22: setColour on a difference map and fetchDiffMapColourAndRedraw on a
   map that is no difference map change nothing: the display buffers, the
   renderer, the colour partition, otherMapForColouring and every other field
   of the map stay as they were, neither buildBuffers nor drawScene is
   called, nothing is posted, and the promise of the call is resolved, not
   rejected. *)
C22_WrongRecolourIsNoOp ==
    [][(\/ last'.op = "setColour" /\ map.isDifference
        \/ last'.op = "fetchDiffMapColourAndRedraw" /\ ~map.isDifference) =>
        /\ buffers' = buffers
        /\ glRef' = glRef
        /\ map' = map
        /\ EventsOf("buildBuffers")' = << >>
        /\ EventsOf("drawScene")' = << >>
        /\ cootWorker' = cootWorker
        /\ activeMessages' = activeMessages
        /\ EventsOf("rejected")' = << >>
        /\ \E op \in RecolourOps :
                op = last'.op /\ Len(Settled("resolved", op)') = 1
      ]_vars

\* setColour was called on a difference map that holds two buffers and has
\* another map set for colouring
C22_Witness ==
    /\ last.op = "setColour"
    /\ map.isDifference
    /\ Len(map.displayObjects.Coot) = 2
    /\ map.otherMapForColouring # Null
    /\ last.args.redraw

----------------------------------------------------------------------------
\* the last step handled a reply of the engine whose status is no success
FailureReplied ==
    EngineReplied /\ last.args.reply.result.status # "Completed"

\* the calls whose promise the last step rejected
RejectedCalls ==
    {EventsOf("rejected")[k].arg.call : k \in 1..Len(EventsOf("rejected"))}

(* C23: when the reply to a command that an operation of the map awaits
   carries a status that is no success, the step that handles it rejects the
   promise of that operation and posts no message for the same command. *)
C23_FailureRejectsNoRetry ==
    [][FailureReplied' =>
        /\ \A cw \in WaitsFor(last'.args.reply.messageId) :
                cw.c \in RejectedCalls'
        /\ \A c \in ContourCommands \cup LoadCommands :
                c = RepliedCommand' =>
                    Asking(Posted(cootWorker.received, cootWorker'.received), c)
                        = << >>
      ]_vars

----------------------------------------------------------------------------
\* the mesh of the contour pass the last step completed
PassedMesh == last.args.reply.result.result[1]

\* the vertices of a mesh its index list names, as positions of the colour
\* array
Indexed(mesh) == {idx + 1 : idx \in Range(mesh.idx_tri)}

\* the vertices of a mesh on the side of the threshold that `type` names
Lobe(mesh, type) ==
    {v \in Indexed(mesh) :
        (mesh.col_tri[v].red < RedThreshold) = (type = "positiveDiffColour")}

\* the vertices of a colour array that carry the colour
Carrying(colbuffer, colour) ==
    {v \in 1..Len(colbuffer) : colbuffer[v] = colour}

(* C24: when a difference map was contoured once, so that the partition it
   holds was computed from one mesh, fetchDiffMapColourAndRedraw(type) below
   alpha 0.99 writes, in every buffer of the map and in a fresh colour array
   of the length of the mesh's, exactly the vertices the mesh indexes on the
   side of the threshold that `type` names (red < 0.5 for
   'positiveDiffColour', the others for 'negativeDiffColour') and leaves
   every other vertex as it was; no offset is in both lists. *)
C24_PartitionReproducesSplit ==
    [][ ( /\ ContourPassed
          /\ map.isDifference
          /\ last'.op = "fetchDiffMapColourAndRedraw"
          /\ last'.args.mapAlpha < AlphaOpaque )
        => LET type == last'.args.type
               colour == StoreColour(DiffColour(type))
               fresh == Paint(PassedMesh.col_tri, EngineColour(0))
           IN  /\ Carrying(WriteColour(fresh, map.diffMapColourBuffers[type],
                                       colour), colour)
                    = Lobe(PassedMesh, type)
               /\ \A b \in HeldBuffers :
                    /\ Len(buffers'[b].triangleColours)
                            = Len(PassedMesh.col_tri)
                    /\ \A v \in 1..Len(PassedMesh.col_tri) :
                            buffers'[b].triangleColours[v] =
                                IF v \in Lobe(PassedMesh, type) THEN colour
                                ELSE buffers[b].triangleColours[v]
               /\ Range(map.diffMapColourBuffers.positiveDiffColour)
                    \cap Range(map.diffMapColourBuffers.negativeDiffColour)
                    = {}
      ]_vars

\* a buffer of the negative lobe got the positive colour at one vertex of a
\* mesh that has vertices on both sides of the threshold
C24_Witness ==
    /\ last.op = "fetchDiffMapColourAndRedraw"
    /\ last.args.type = "positiveDiffColour"
    /\ last.args.mapAlpha < AlphaOpaque
    /\ Len(map.displayObjects.Coot) = 2
    /\ LET colbuffer == buffers[map.displayObjects.Coot[2]].triangleColours
       IN  /\ Carrying(colbuffer, StoreColour("positiveMapColour")) # {}
           /\ Carrying(colbuffer, StoreColour("negativeMapColour")) # {}
           /\ Len(map.diffMapColourBuffers.positiveDiffColour) > 1

----------------------------------------------------------------------------
\* the buffer of the lobe that `type` names, of a map that holds two
LobeBuffer(type) ==
    map.displayObjects.Coot[IF type = "positiveDiffColour" THEN 1 ELSE 2]

(* C25: on a contoured difference map (two buffers) with alpha >= 0.99,
   fetchDiffMapColourAndRedraw('positiveDiffColour') sets the positive colour
   as custom colour of the first buffer and leaves the second as it was,
   'negativeDiffColour' sets the negative colour on the second and leaves the
   first; no triangle-colour array changes, buildBuffers is not called and
   drawScene is called once. *)
C25_OpaqueRecolourIsUniform ==
    [][ ( /\ last'.op = "fetchDiffMapColourAndRedraw"
          /\ last'.args.mapAlpha >= AlphaOpaque
          /\ map.isDifference
          /\ Len(map.displayObjects.Coot) = 2 )
        => /\ \E type \in {"positiveDiffColour", "negativeDiffColour"} :
                /\ type = last'.args.type
                /\ buffers'[LobeBuffer(type)].customColour
                        = Some(DiffColour(type))
                /\ \A b \in DOMAIN buffers :
                        b # LobeBuffer(type) => buffers'[b] = buffers[b]
           /\ DOMAIN buffers' = DOMAIN buffers
           /\ \A b \in DOMAIN buffers :
                buffers'[b].triangleColours = buffers[b].triangleColours
           /\ map' = map
           /\ EventsOf("buildBuffers")' = << >>
           /\ Len(EventsOf("drawScene")') = 1
      ]_vars

\* the negative colour was set on the second buffer of an opaque difference
\* map, whose first buffer carries no custom colour
C25_Witness ==
    /\ last.op = "fetchDiffMapColourAndRedraw"
    /\ last.args.type = "negativeDiffColour"
    /\ last.args.mapAlpha >= AlphaOpaque
    /\ map.isDifference
    /\ Len(map.displayObjects.Coot) = 2
    /\ buffers[map.displayObjects.Coot[2]].customColour
            = Some("negativeMapColour")
    /\ buffers[map.displayObjects.Coot[1]].customColour = Null
    /\ Len(EventsOf("drawScene")) = 1

----------------------------------------------------------------------------
\* the events of the last step by which setupContourBuffers changes buffers
BufferEvents ==
    SelectSeq(last.events,
              LAMBDA x : x.e \in {"clearBuffers", "appendOtherData", "split",
                                  "buildBuffers", "drawScene"})

(* C26: a step of drawMapContour posts exactly one request, a contour-mesh
   command whose returnType is mesh_perm for the style solid, lit_lines_mesh
   for lit-lines and lines_mesh for lines, and changes no buffer, neither of
   the map nor of the renderer, and calls neither buildBuffers nor
   drawScene; the mesh is split and buffers are attached only in the step
   that handles the reply to a contour request. *)
C26_OneRequestThenBuffers ==
    [][ /\ last'.op = "drawMapContour" =>
            LET posted == Posted(cootWorker.received, cootWorker'.received)
            IN  /\ Len(posted) = 1
                /\ CommandOf(posted[1]) \in ContourCommands
                /\ posted[1].kwargs.kwargs.returnType =
                        ( CASE last'.args.style = "solid" -> "mesh_perm"
                            [] last'.args.style = "lit-lines" -> "lit_lines_mesh"
                            [] OTHER -> "lines_mesh" )
                /\ buffers' = buffers
                /\ glRef' = glRef
                /\ map' = map
                /\ BufferEvents' = << >>
        /\ \A k \in 1..Len(last'.events) :
                last'.events[k].e \in {"appendOtherData", "split"}
                    => ContourReplied'
      ]_vars

\* a lit-lines contour was requested and is pending
C26_Witness ==
    /\ last.op = "drawMapContour"
    /\ last.args.style = "lit-lines"
    /\ Cardinality(PendingContours) = 1
    /\ \E m \in Range(cootWorker.received) :
            /\ CommandOf(m) \in ContourCommands
            /\ m.kwargs.kwargs.returnType = "lit_lines_mesh"
    /\ map.displayObjects.Coot = << >>

----------------------------------------------------------------------------
\* the offsets of the entries of a mesh's index list on the side of the
\* threshold that `type` names, in the order of the list
OffsetsOf(mesh, type) ==
    LET side == SelectSeq(mesh.idx_tri,
                    LAMBDA idx : (mesh.col_tri[idx + 1].red < RedThreshold)
                                    = (type = "positiveDiffColour"))
    IN  [k \in 1..Len(side) |-> side[k] * Stride]

(* C27: after every completed contour pass of a difference map that was not
   deleted, the partition the map holds is the one computed from the mesh of
   that pass alone: positiveDiffColour and negativeDiffColour are the offsets
   of that mesh's indexes on either side of the threshold, so that they hold
   together as many offsets as the mesh has indexes, whatever passes came
   before. *)
C27_PartitionOfLatestMesh ==
    (ContourPassed /\ map.isDifference /\ ~Disposed) =>
        /\ \A type \in {"positiveDiffColour", "negativeDiffColour"} :
                map.diffMapColourBuffers[type] = OffsetsOf(PassedMesh, type)
        /\ Len(map.diffMapColourBuffers.positiveDiffColour)
            + Len(map.diffMapColourBuffers.negativeDiffColour)
                = Len(PassedMesh.idx_tri)

----------------------------------------------------------------------------
\* how often an index list names the vertex
TimesIn(idxs, vertex) == Len(SelectSeq(idxs, LAMBDA idx : idx = vertex))

\* the index lists of the two buffers a difference pass attached
PositiveIdx == buffers[map.displayObjects.Coot[1]].triangleIndexs
NegativeIdx == buffers[map.displayObjects.Coot[2]].triangleIndexs

(* C28: after a contour pass of a difference map the index list of the
   positive lobe is the incoming mesh's index list restricted to the indexes
   whose colour has a red channel < 0.5, that of the negative lobe is the
   list restricted to the other indexes, both in the order of the mesh; every
   index is as often in the two lists together as in the mesh and no vertex
   is in both; the index list of the incoming mesh is as it arrived. *)
C28_EveryIndexInOneLobe ==
    (ContourPassed /\ map.isDifference /\ ~Disposed) =>
        /\ Len(map.displayObjects.Coot) = 2
        /\ PositiveIdx =
                SelectSeq(PassedMesh.idx_tri,
                    LAMBDA idx : PassedMesh.col_tri[idx + 1].red < RedThreshold)
        /\ NegativeIdx =
                SelectSeq(PassedMesh.idx_tri,
                    LAMBDA idx : PassedMesh.col_tri[idx + 1].red >= RedThreshold)
        /\ \A vertex \in Range(PassedMesh.idx_tri) :
                /\ TimesIn(PositiveIdx, vertex) + TimesIn(NegativeIdx, vertex)
                        = TimesIn(PassedMesh.idx_tri, vertex)
                /\ vertex \notin Range(PositiveIdx) \cap Range(NegativeIdx)
        /\ Range(PositiveIdx) \cup Range(NegativeIdx)
                = Range(PassedMesh.idx_tri)
        /\ Len(EventsOf("split")) = 1
        /\ EventsOf("split")[1].arg.object = PassedMesh

\* a mesh of three indexes was split: the second, below the threshold, is
\* the positive lobe, the two others, one of them at the threshold, the
\* negative one
C28_Witness ==
    /\ ContourPassed
    /\ map.isDifference
    /\ Len(map.displayObjects.Coot) = 2
    /\ Len(PositiveIdx) = 1
    /\ Len(NegativeIdx) = 2
    /\ \E k \in 1..2 : PassedMesh.col_tri[NegativeIdx[k] + 1].red = RedThreshold
    /\ PassedMesh.idx_tri[2] = PositiveIdx[1]

----------------------------------------------------------------------------
\* the last step completed a contour pass of a map that is not a difference
\* map and has no other map for colouring: the pass did not keep the
\* engine's colours
SingleColourPassed ==
    /\ ContourPassed
    /\ ~Disposed
    /\ ~map.isDifference
    /\ map.otherMapForColouring = Null

\* the alpha of the store that the pass of the last step read
PassedAlpha == last.args.reply.mapAlpha

(* C29: after a contour pass of a non-difference map that does not keep the
   engine's colours, the map's buffer has every vertex in the map colour
   when alpha < 0.98 and has the map colour as custom colour when
   alpha >= 0.98; for no alpha, 0.98 included, has it a vertex in a colour of
   the engine and no custom colour. *)
C29_SingleColourForEveryAlpha ==
    SingleColourPassed =>
        LET buffer == buffers[map.displayObjects.Coot[1]]
        IN  /\ PassedAlpha < AlphaRecolour =>
                    \A v \in 1..Len(buffer.triangleColours) :
                        buffer.triangleColours[v] = StoreColour("mapColour")
            /\ PassedAlpha >= AlphaRecolour =>
                    buffer.customColour = Some("mapColour")
            /\ ~ ( /\ \E v \in 1..Len(buffer.triangleColours) :
                        buffer.triangleColours[v].from = "engine"
                   /\ buffer.customColour = Null )

----------------------------------------------------------------------------
\* the buffers the map holds whose primitive type is that of the mesh
Matching(mesh) == {b \in HeldBuffers : buffers[b].bufferTypes = mesh.prim_types}

(* C30: a contour pass of a non-difference map that does not keep the
   engine's colours, when the map holds a buffer of the primitive type of the
   incoming mesh, changes one such buffer in place: the map holds the same
   buffers after it, none was cleared and none appended to the renderer, the
   buffer has the index list of the mesh and is dirty, the others are as
   they were; when the map holds no such buffer, the pass removes every
   buffer of the map from the renderer and attaches exactly one, new,
   buffer, of the primitive type of the mesh. *)
C30_InPlaceOrOneFresh ==
    [][ (ContourPassed' /\ ~map.isDifference /\ map.otherMapForColouring = Null)
        => IF Matching(PassedMesh') # {}
           THEN /\ map'.displayObjects = map.displayObjects
                /\ DOMAIN buffers' = DOMAIN buffers
                /\ glRef'.displayBuffers = glRef.displayBuffers
                /\ glRef'.created = glRef.created
                /\ EventsOf("clearBuffers")' = << >>
                /\ EventsOf("appendOtherData")' = << >>
                /\ \E b \in Matching(PassedMesh') :
                        /\ buffers'[b].id = buffers[b].id
                        /\ buffers'[b].triangleIndexs = PassedMesh'.idx_tri
                        /\ buffers'[b].isDirty
                        /\ \A other \in DOMAIN buffers :
                                other # b => buffers'[other] = buffers[other]
           ELSE /\ Len(map'.displayObjects.Coot) = 1
                /\ map'.displayObjects.Coot[1] \notin DOMAIN buffers
                /\ buffers'[map'.displayObjects.Coot[1]].bufferTypes
                        = PassedMesh'.prim_types
                /\ \A b \in HeldBuffers :
                        /\ b \notin DOMAIN buffers'
                        /\ b \notin Range(glRef'.displayBuffers)
                /\ Len(EventsOf("clearBuffers")') = Len(map.displayObjects.Coot)
                /\ Len(EventsOf("appendOtherData")') = 1
      ]_vars

\* a map that held the two lobes of an earlier pass as a difference map
\* holds the same two buffers after a pass as a non-difference map: the
\* first has the index list of the mesh, the second is the negative lobe
C30_Witness ==
    /\ SingleColourPassed
    /\ EventsOf("appendOtherData") = << >>
    /\ EventsOf("clearBuffers") = << >>
    /\ Len(map.displayObjects.Coot) = 2
    /\ buffers[map.displayObjects.Coot[1]].bufferTypes = PassedMesh.prim_types
    /\ buffers[map.displayObjects.Coot[1]].triangleIndexs = PassedMesh.idx_tri
    /\ buffers[map.displayObjects.Coot[2]].triangleIndexs # PassedMesh.idx_tri
    /\ buffers[map.displayObjects.Coot[1]].isDirty

----------------------------------------------------------------------------
(* C31: a contour pass of a non-difference map that has another map for
   colouring removes every buffer the map held from the renderer and
   attaches exactly one new buffer, which has the colours the engine gave
   the mesh and no custom colour; no buffer is changed in place, whatever
   the map held and whatever alpha is. *)
C31_KeptColoursAlwaysReplace ==
    [][ (ContourPassed' /\ ~map.isDifference /\ map.otherMapForColouring # Null)
        => /\ Len(EventsOf("clearBuffers")') = Len(map.displayObjects.Coot)
           /\ Len(EventsOf("appendOtherData")') = 1
           /\ EventsOf("mutate")' = << >>
           /\ \A b \in HeldBuffers :
                /\ b \notin DOMAIN buffers'
                /\ b \notin Range(glRef'.displayBuffers)
           /\ \A b \in (DOMAIN buffers) \ HeldBuffers : buffers'[b] = buffers[b]
           /\ Len(map'.displayObjects.Coot) = 1
           /\ LET a == map'.displayObjects.Coot[1]
              IN  /\ a \notin DOMAIN buffers
                  /\ a \in Range(glRef'.displayBuffers)
                  /\ buffers'[a].bufferTypes = PassedMesh'.prim_types
                  /\ buffers'[a].triangleIndexs = PassedMesh'.idx_tri
                  /\ buffers'[a].triangleColours = PassedMesh'.col_tri
                  /\ buffers'[a].customColour = Null
      ]_vars

\* a map with another map for colouring that held a buffer was contoured:
\* the buffer was cleared and the new one has the engine's colours
C31_Witness ==
    /\ ContourPassed
    /\ ~Disposed
    /\ ~map.isDifference
    /\ map.otherMapForColouring # Null
    /\ EventsOf("clearBuffers") # << >>
    /\ Len(map.displayObjects.Coot) = 1
    /\ PassedMesh.prim_types = "LINES"
    /\ PassedAlpha < AlphaRecolour
    /\ buffers[map.displayObjects.Coot[1]].triangleColours = PassedMesh.col_tri

----------------------------------------------------------------------------
\* the operations that call postMessage
PostingOps == {"postMessage", "cootCommand", "cootCommandList"}

(* C33: a step that calls postMessage pushes the request to the in-flight
   set before it posts the message to the worker, so that the request is
   registered when the worker has it; the worker has the messages in the
   order of the postMessage calls, which is the order of their ids; every
   reply that is handled is for a messageId that is registered then, and it
   resolves the promise of that request. *)
C33_RegisteredBeforePosted ==
    [][ /\ last'.op \in PostingOps =>
            /\ Cardinality(EventsAt("push")') = 1
            /\ Cardinality(EventsAt("workerPost")') = 1
            /\ \A a \in EventsAt("push")', q \in EventsAt("workerPost")' :
                    /\ a < q
                    /\ last'.events[a].arg = last'.events[q].arg
                    /\ last'.events[a].arg \in IdsOf(activeMessages')
            /\ IdsOf(cootWorker'.received) \subseteq IdsOf(activeMessages')
                                                \cup cootWorker.answered
        /\ \A i, j \in 1..Len(cootWorker'.received) :
                i < j => cootWorker'.received[i].messageId
                            < cootWorker'.received[j].messageId
        /\ last'.op = "handleMessage" =>
            /\ last'.args.reply.messageId \in IdsOf(activeMessages)
            /\ \E k \in 1..Len(last'.events) :
                    /\ last'.events[k].e = "resolve"
                    /\ last'.events[k].arg.request = last'.args.reply.messageId
            /\ \E id \in PostedIds :
                    /\ id = last'.args.reply.messageId
                    /\ TimesResolved(id)' = 1
      ]_vars

\* the second of two requests posted behind the handshake was answered
\* first, while the handshake and the first request are still in flight
C33_Witness ==
    /\ last.op = "handleMessage"
    /\ last.args.reply.messageId = 3
    /\ IdsOf(activeMessages) = {InitId, 2}
    /\ Len(cootWorker.received) = 3
    /\ cootWorker.received[2].messageId = 2
    /\ TimesResolved(3) = 1

----------------------------------------------------------------------------
\* the events by which a contour pass creates, removes or changes buffers
PassEvents == {"split", "clearBuffers", "appendOtherData", "mutate"}

(* C32: the step that handles the reply to a contour request calls
   buildBuffers exactly once and drawScene exactly once, buildBuffers before
   drawScene and both after everything the pass cleared, attached, split or
   changed in place, whether the pass attached one buffer, the two lobes of
   a difference map, or none. *)
C32_OneRebuildOneRedraw ==
    ContourReplied =>
        /\ Cardinality(EventsAt("buildBuffers")) = 1
        /\ Cardinality(EventsAt("drawScene")) = 1
        /\ \A b \in EventsAt("buildBuffers"), d \in EventsAt("drawScene") :
                /\ b < d
                /\ \A k \in 1..Len(last.events) :
                        last.events[k].e \in PassEvents => k < b

\* a pass of a difference map that held buffers: they were cleared, the two
\* lobes attached, and the renderer rebuilt and redrew once
C32_Witness ==
    /\ ContourPassed
    /\ map.isDifference
    /\ EventsAt("clearBuffers") # {}
    /\ Cardinality(EventsAt("appendOtherData")) = 2
    /\ Cardinality(EventsAt("buildBuffers")) = 1
    /\ Cardinality(EventsAt("drawScene")) = 1

----------------------------------------------------------------------------
(* C34: the step that handles a reply whose messageId is that of no request
   in flight (no id, an id never handed out, the id of a request answered
   before) resolves no promise and leaves the in-flight set and what the
   worker has still to answer as they were; a reply with the id of a request
   in flight resolves that request and takes it, and it alone, out of the
   in-flight set, whatever replies were handled before. *)
C34_StrayReplyResolvesNothing ==
    [][ last'.op = "handleMessage" =>
            IF last'.args.reply.messageId \in IdsOf(activeMessages)
            THEN /\ Cardinality(EventsAt("resolve")') = 1
                 /\ \A k \in EventsAt("resolve")' :
                        last'.events[k].arg.request = last'.args.reply.messageId
                 /\ IdsOf(activeMessages')
                        = IdsOf(activeMessages) \ {last'.args.reply.messageId}
            ELSE /\ EventsAt("resolve")' = {}
                 /\ resolutions' = resolutions
                 /\ activeMessages' = activeMessages
                 /\ cootInitialized' = cootInitialized
                 /\ Unanswered' = Unanswered
      ]_vars

\* a second reply for a request answered before was handled while another
\* request is in flight: the first was resolved once, the other not
C34_Witness ==
    /\ last.op = "handleMessage"
    /\ last.args.reply.messageId = 2
    /\ EventsAt("resolve") = {}
    /\ 2 \in cootWorker.answered
    /\ TimesResolved(2) = 1
    /\ 3 \in IdsOf(activeMessages)
    /\ TimesResolved(3) = 0

----------------------------------------------------------------------------
\* no request is in flight and the observer was told so last
Idle ==
    /\ activeMessages = << >>
    /\ reportedActive = << >>

(* C35: when the command centre is not torn down and the worker goes on
   answering the messages it has received, then, once the callers have
   stopped posting, the in-flight set becomes empty and the last value
   onActiveMessagesChanged received is the empty set, and it stays so. *)
C35_EventuallyIdle ==
    ([] ~teardown.done) => <>[] Idle

\* every request the bound allows was posted and answered, and the centre
\* is idle
C35_Witness ==
    /\ Idle
    /\ ~teardown.done
    /\ nextId = MaxRequests + 2
    /\ Len(resolutions) = MaxRequests + 1
    /\ last.op = "handleMessage"

----------------------------------------------------------------------------
(* C36: no operation of the map changes the command history: the commands of
   replaceMapWithMtzFile, blur and delete are issued with journal = true, yet
   no step of the map adds an entry to the history, since none of the
   commands declares changesMolecules. *)

\* the messages posted by the step for one of the commands
PostedFor(commands) ==
    {k \in (Len(cootWorker.received) + 1)..Len(cootWorker'.received) :
        CommandOf(cootWorker'.received[k]) \in commands}

JournaledCommands ==
    {"close_molecule", "shim_replace_map_by_mtz_from_file", "sharpen_blur_map"}

C36_MapKeepsHistory ==
    [][ /\ history' = history
        /\ EventsOf("addEntry")' = << >>
        /\ \A k \in PostedFor(JournaledCommands) :
                cootWorker'.received[k].kwargs.kwargs.changesMolecules = Undefined
      ]_vars

\* replace, blur and close_molecule were all answered and the history is
\* still empty
C36_Witness ==
    /\ \A command \in JournaledCommands : Answered(command) # {}
    /\ history = << >>

----------------------------------------------------------------------------
(* C37: the renderer is shared with another map. A step of the map removes
   from the renderer's displayBuffers only buffers the map held in its
   displayObjects; every other buffer stays in displayBuffers, at its place
   among the others, and is left as it was. *)

\* the buffers of the renderer that the map does not hold
ForeignBuffers == SelectSeq(glRef.displayBuffers, LAMBDA id : id \notin HeldBuffers)

C37_OnlyOwnBuffersRemoved ==
    [][ /\ Range(glRef.displayBuffers) \ Range(glRef'.displayBuffers)
                \subseteq HeldBuffers
        /\ SelectSeq(glRef'.displayBuffers,
                     LAMBDA id : id \in Range(ForeignBuffers)) = ForeignBuffers
        /\ \A id \in Range(ForeignBuffers) :
                id \in DOMAIN buffers' /\ buffers'[id] = buffers[id]
      ]_vars

\* delete() cleared the buffers of the map and the renderer still shows
\* the buffer of the other map
C37_Witness ==
    /\ last.op = "delete"
    /\ EventsOf("clearBuffers") # << >>
    /\ glRef.displayBuffers = << OtherMapBuffer.id >>
    /\ buffers[OtherMapBuffer.id] = OtherMapBuffer

----------------------------------------------------------------------------
(* C38: hasReflectionData becomes true, and associatedReflectionFileName
   changes, only in a step that handles a Completed reply to
   shim_associate_data_mtz_file_with_map, and after such a step the map has
   reflection data under the file name of that reply; whenever the map has
   reflection data it has a file name. A call of associateToReflectionData
   with a missing column posts nothing, resolves and leaves the map as it
   was; a reply of another status leaves hasReflectionData, selectedColumns
   and associatedReflectionFileName as they were. *)

\* the last step handled the reply to an associate command
AssociateReplied ==
    EngineReplied /\ RepliedCommand = "shim_associate_data_mtz_file_with_map"

AssociateCompleted ==
    AssociateReplied /\ last.args.reply.result.status = "Completed"

ReflectionFields(m) ==
    << m.hasReflectionData, m.selectedColumns, m.associatedReflectionFileName >>

C38_ReflectionDataFromCompletedReply ==
    [][ /\ (~map.hasReflectionData /\ map'.hasReflectionData)
                => AssociateCompleted'
        /\ (map'.associatedReflectionFileName # map.associatedReflectionFileName)
                => AssociateCompleted'
        /\ AssociateCompleted'
                => /\ map'.hasReflectionData
                   /\ map'.associatedReflectionFileName
                        = last'.args.reply.result.result
        /\ map'.hasReflectionData => map'.associatedReflectionFileName # Null
        /\ (last'.op = "associateToReflectionData"
                /\ MissingColumn(last'.args.selectedColumns))
                => /\ cootWorker' = cootWorker
                   /\ activeMessages' = activeMessages
                   /\ map' = map
                   /\ Len(Settled("resolved", "associateToReflectionData")') = 1
        /\ (AssociateReplied' /\ ~AssociateCompleted')
                => ReflectionFields(map') = ReflectionFields(map)
      ]_vars

\* a map that had no reflection data has them under the file name of the
\* Completed reply just handled
C38_Witness ==
    /\ AssociateCompleted
    /\ map.hasReflectionData
    /\ map.associatedReflectionFileName = Some("reflections-2")
    /\ map.selectedColumns =
            Some([Fobs |-> "FP", SigFobs |-> "SIGFP", FreeR |-> "FREE"])

----------------------------------------------------------------------------
(* C39: replaceMapWithMtzFile posts nothing when it is called; when fetch
   throws or its response is not ok the call is rejected and nothing is
   posted; a contour request is posted only in the step that handles a
   Completed reply to shim_replace_map_by_mtz_from_file, and then exactly
   one; a reply of another status rejects the call with that status, posts
   nothing and leaves the display buffers as they were. *)

\* the last step handled the reply to a replace command
ReplaceReplied ==
    EngineReplied /\ RepliedCommand = "shim_replace_map_by_mtz_from_file"

ReplaceCompleted ==
    ReplaceReplied /\ last.args.reply.result.status = "Completed"

\* the values the calls of replaceMapWithMtzFile were rejected with in the
\* last step
ReplaceRejections ==
    LET rejected == Settled("rejected", "replaceMapWithMtzFile")
    IN  [k \in 1..Len(rejected) |-> rejected[k].arg.value]

\* what the renderer shows and what the map holds of it
Display == << glRef, buffers, map.displayObjects, map.diffMapColourBuffers >>

C39_ContourOnlyAfterCompletedReplace ==
    [][ /\ last'.op = "replaceMapWithMtzFile"
                => cootWorker' = cootWorker /\ Display' = Display
        /\ (last'.op = "fetch" /\ last'.args.outcome # "ok")
                => /\ cootWorker' = cootWorker
                   /\ Display' = Display
                   /\ ReplaceRejections' =
                        << Some(IF last'.args.outcome = "throws"
                                THEN "Unable to fetch file"
                                ELSE "Error fetching data from url") >>
        /\ (last'.op = "fetch" /\ last'.args.outcome = "ok")
                => /\ Cardinality(PostedFor({"shim_replace_map_by_mtz_from_file"})) = 1
                   /\ PostedFor(ContourCommands) = {}
                   /\ ReplaceRejections' = << >>
        /\ PostedFor(ContourCommands) # {} => ReplaceCompleted'
        /\ ReplaceCompleted'
                => /\ Cardinality(PostedFor(ContourCommands)) = 1
                   /\ ReplaceRejections' = << >>
        /\ (ReplaceReplied' /\ ~ReplaceCompleted')
                => /\ ReplaceRejections' =
                        << Some(last'.args.reply.result.status) >>
                   /\ cootWorker'.received = cootWorker.received
                   /\ Display' = Display
      ]_vars

\* the replace command completed on a displayed map and the contour request
\* of the call is with the engine
C39_Witness ==
    /\ ReplaceCompleted
    /\ HeldBuffers # {}
    /\ \E k \in Received("get_map_contours_mesh") :
            k = Len(cootWorker.received) /\ k \notin Answered("get_map_contours_mesh")

----------------------------------------------------------------------------
(* C40: a contour request is the other-map variant exactly when
   otherMapForColouring is set as it is issued; setColour on a map that is
   not a difference map resets otherMapForColouring; and the result of a
   request is applied with the policy of its variant: engine colours
   preserved for the other-map variant, not preserved for the plain one. *)

OtherMapCommand == "get_map_contours_mesh_using_other_map_for_colours"

\* the display after a contour pass over the mesh of the reply handled in
\* the step, with the given policy
Applied(reply, keepCootColours) ==
    LET w == setupContourBuffers(World, << reply.result.result >>,
                                 keepCootColours, reply.mapAlpha)
    IN  << w.glRef, w.buffers, w.map.displayObjects >>

C40_PolicyFollowsRequest ==
    [][ /\ \A k \in PostedFor(ContourCommands) :
                CommandOf(cootWorker'.received[k]) = OtherMapCommand
                    <=> map.otherMapForColouring # Null
        /\ (last'.op = "setColour" /\ ~map.isDifference)
                => map'.otherMapForColouring = Null
        /\ ContourPassed'
                => << glRef', buffers', map'.displayObjects >>
                        = Applied(last'.args.reply,
                                  RepliedCommand' = OtherMapCommand)
      ]_vars

============================================================================
